---- MODULE Spec2Model ----
(***************************************************************************)
(* A model of IsolatedEthernet (src/src/IsolatedEthernet.h): the W5500     *)
(* socket pool, the link/DHCP state machine run by the maintenance thread, *)
(* TCPClient with its shared connection state, TCPServer and the UDP       *)
(* sockets of the application.                                             *)
(*                                                                         *)
(* The WIZnet ioLibrary (socket.cpp, dhcp.cpp, dns.cpp) is not part of the *)
(* sources at hand; the hw_* and DHCP_* / DNS_* operators below model it   *)
(* as the specification describes the hardware slots.                      *)
(*                                                                         *)
(* Every method of the library is an operator from a world record (all     *)
(* fields of the program and of the chip) to the world after the call, so  *)
(* that a method calling another (connect calls stop, read calls           *)
(* available) is a composition.  An action applies one method, with its    *)
(* arguments and the hardware's answers drawn from small sets.             *)
(***************************************************************************)
EXTENDS Integers, Sequences, FiniteSets, TLC

\* ------------------------------------------------------------ constants
NUM_SOCKETS == 8            \* IsolatedEthernet::NUM_SOCKETS

SOCK_BUSY == 0               \* result of wiznet::send that write() retries

\* Width in bits of size_t and system_tick_t.  The source has 32; the model
\* takes a width whose values the model checker's integers can hold.
SizeWidth == 16
SOCKET_WAIT_FOREVER == (2 ^ SizeWidth) - 1      \* (system_tick_t) -1

\* Capacity of TCPClient::Data::buffer.  The source uses
\* TCPCLIENT_BUF_MAX_SIZE (documented as 2048); the model scales it down.
TCPCLIENT_BUF_MAX_SIZE == 2

\* ------------------------------------------------------------ bounds
NumClients == 2             \* TCPClient objects of the application
NumUdp == 8                 \* UDP objects of the application
StreamLen == 4              \* bytes a peer sends on one connection
MaxRx == 3                  \* bytes the chip holds unread for one slot
MaxReadSize == 2            \* largest size passed to read(buffer, size)
MaxInProgress == 2          \* counted entries into IN_PROGRESS
MaxJsonKeys == 2            \* keys of an object given to loadJsonConfig
MaxNetKeys == 1             \* the same, in the specification SpecNet
TX_BUF == 2                 \* send buffer of a slot (2048 bytes, scaled)
MaxWriteSize == 3           \* largest size passed to write(buffer, size, ..)
SendTimeout == 2            \* a timeout in ms that can expire during a write
MaxElapsed == 3             \* millis() - start is counted up to this value
UDP_BUFFER_SIZE == 2        \* _buffer_size of UDP() (512 in the source)
MaxUdpBuf == 2              \* largest buf_size given to UDP::setBuffer
MaxUdpWrite == 3            \* largest size given to UDP::write
MaxDgram == 2               \* longest datagram a peer sends
MaxPending == 1             \* datagrams the chip holds unread for one slot
MaxUdpOffset == 3           \* largest _offset from which read() is called

Slots == 0 .. (NUM_SOCKETS - 1)
UserHandles == 1 .. NumClients
SrvHandle == NumClients + 1     \* TCPServer::_client
InvHandle == NumClients + 2     \* s_invalid_client
Handles == 1 .. (NumClients + 2)
DataIds == 1 .. (NumClients + 3)

\* Addresses: 0 is 0.0.0.0, 1 a static address, 2 the address of a lease.
Addr == 0 .. 2

TcpStatus == {"INIT", "LISTEN", "ESTABLISHED", "CLOSE_WAIT"}
Status == TcpStatus \cup {"CLOSED", "UDP"}
DhcpStates == {"NOT_USED", "ATTEMPT", "IN_PROGRESS", "GOT_ADDRESS",
               "CLEANUP", "CLEANUP_DISABLE", "DONE"}

VARIABLES
    \* the W5500 and the network
    hwLink,         \* PHY link as the chip reports it (wizphy_getphylink)
    sr,             \* Sn_SR of each hardware socket
    rxq,            \* bytes received by the chip and not yet read, per socket
    peer,           \* bytes the peer has sent on the connection of a socket
    \* IsolatedEthernet
    setupDone, phyLink, isReady, dhcpState, ipAddr, dhcpBuffer,
    dnsBuffer,      \* "NULL", or a pointer to a "LIVE" or to a "FREED" array
    DHCP_SOCKET,    \* the socket DHCP_init was given (dhcp.cpp)
    dhcpCallbacks,  \* reg_dhcp_cbfunc has registered the lease callbacks
    \* TCPClient: handles (d_) and the shared Data objects
    d_, dsock, doffset, dtotal, dbuffer, dremoteIP,
    \* TCPServer::_sock
    srvSock,
    \* the application's UDP objects: how many of them have _sock = s
    udpCount,
    \* observation of the last call: return value, callbacks, hardware calls
    ret, ev, ops,
    \* bytes wiznet::recv handed to handle 1 and bytes its reads returned,
    \* since its last connect
    recvLog, readLog,
    \* number of entries into IN_PROGRESS so far, and the step of the link
    \* scenario (0: none, 1: link up, 2: lease, 3: link down, 4: link up)
    inProgressCount, linkEvents,
    \* Print::write_error of TCPClient 1, the activation of its write()
    \* (pc, arguments, locals, the chunks the chip accepted) and the bytes
    \* handed to the chip by that write
    writeError, wr, txLog,
    \* one UDP object of the application in full (its members, and the bytes
    \* written to its buffer since the cursor was last reset), the registers
    \* Sn_PORT and Sn_MR (multicast flag) and the multicast group of each
    \* hardware socket, and
    \* the datagrams the chip has sent in the last call
    udp, snreg, udpSent,
    \* the other address fields of IsolatedEthernet, and the network
    \* registers of the chip as wizchip_setnetinfo wrote them last
    subnetMaskArray, gatewayAddr, dnsAddr, netInfo,
    \* where the maintenance thread is in stateMachine (thread: "idle"
    \* between passes, else the case its switch has selected), where a
    \* foreground call of withStaticIP is (call: "idle", else the state its
    \* switch has decided to assign), and whether the last such call found
    \* DHCP IN_PROGRESS or GOT_ADDRESS (asked); the local variables that
    \* hold the result of socketGetFree() while a context is between that
    \* call and its use: dhcpSocket of stateMachine and sock of UDP::begin
    \* (-1 outside); the address and port given to the last beginPacket()
    \* that the action PacketBegin made (dest; <<0, 0>>: none)
    pc

vars == <<hwLink, sr, rxq, peer, setupDone, phyLink, isReady, dhcpState,
          ipAddr, dhcpBuffer, dnsBuffer, DHCP_SOCKET, dhcpCallbacks, d_,
          dsock, doffset,
          dtotal, dbuffer, dremoteIP, srvSock, udpCount, ret, ev, ops,
          recvLog, readLog, inProgressCount, linkEvents, writeError, wr,
          txLog, udp, snreg, udpSent, subnetMaskArray, gatewayAddr, dnsAddr,
          netInfo, pc>>

\* The world at the start of a call: the observation of the call is empty.
Cur ==
    [hwLink |-> hwLink, sr |-> sr, rxq |-> rxq, peer |-> peer,
     setupDone |-> setupDone,
     phyLink |-> phyLink, isReady |-> isReady, dhcpState |-> dhcpState,
     ipAddr |-> ipAddr, dhcpBuffer |-> dhcpBuffer, dnsBuffer |-> dnsBuffer,
     DHCP_SOCKET |-> DHCP_SOCKET,
     dhcpCallbacks |-> dhcpCallbacks,
     d_ |-> d_, dsock |-> dsock, doffset |-> doffset, dtotal |-> dtotal,
     dbuffer |-> dbuffer, dremoteIP |-> dremoteIP,
     srvSock |-> srvSock, udpCount |-> udpCount,
     ret |-> 0, ev |-> <<>>, ops |-> <<>>,
     recvLog |-> recvLog, readLog |-> readLog,
     inProgressCount |-> inProgressCount, linkEvents |-> linkEvents,
     writeError |-> writeError, wr |-> wr, txLog |-> txLog,
     udp |-> udp, snreg |-> snreg, udpSent |-> <<>>,
     subnetMaskArray |-> subnetMaskArray, gatewayAddr |-> gatewayAddr,
     dnsAddr |-> dnsAddr, netInfo |-> netInfo, pc |-> pc]

Apply(w) ==
    /\ hwLink' = w.hwLink /\ sr' = w.sr /\ rxq' = w.rxq /\ peer' = w.peer
    /\ setupDone' = w.setupDone /\ dhcpCallbacks' = w.dhcpCallbacks
    /\ phyLink' = w.phyLink /\ isReady' = w.isReady
    /\ dhcpState' = w.dhcpState /\ ipAddr' = w.ipAddr
    /\ dhcpBuffer' = w.dhcpBuffer /\ DHCP_SOCKET' = w.DHCP_SOCKET
    /\ dnsBuffer' = w.dnsBuffer
    /\ d_' = w.d_ /\ dsock' = w.dsock /\ doffset' = w.doffset
    /\ dtotal' = w.dtotal /\ dbuffer' = w.dbuffer /\ dremoteIP' = w.dremoteIP
    /\ srvSock' = w.srvSock /\ udpCount' = w.udpCount
    /\ ret' = w.ret /\ ev' = w.ev /\ ops' = w.ops
    /\ recvLog' = w.recvLog /\ readLog' = w.readLog
    /\ inProgressCount' = w.inProgressCount /\ linkEvents' = w.linkEvents
    /\ writeError' = w.writeError /\ wr' = w.wr /\ txLog' = w.txLog
    /\ udp' = w.udp /\ snreg' = w.snreg /\ udpSent' = w.udpSent
    /\ subnetMaskArray' = w.subnetMaskArray /\ gatewayAddr' = w.gatewayAddr
    /\ dnsAddr' = w.dnsAddr /\ netInfo' = w.netInfo
    /\ pc' = w.pc

\* ------------------------------------------------------------ the W5500
\* (WIZnet ioLibrary socket.cpp; modelled from the specification's hardware
\* slots: a slot is closed, or open in TCP or UDP mode)

Log(w, name, s, a) == [w EXCEPT !.ops = Append(@, <<name, s, a>>)]

ValidSock(s) == s \in Slots

\* Sn_PORT, the multicast flag of Sn_MR and the multicast group of a socket
\* that is not open in UDP mode by the UDP object
NoReg == [port |-> 0, multi |-> FALSE, group |-> 0]

\* wiznet::getsockopt(sn, SO_STATUS, &status).  For a socket number that is
\* not a socket of the chip nothing is written to status, which the callers
\* leave uninitialized: garbage stands for the value they then read.
hw_status(w, s, garbage) == IF ValidSock(s) THEN w.sr[s] ELSE garbage

\* wiznet::close(sn).  The registers of a closed socket have no effect until
\* they are written again: the model forgets them.
hw_close(w, s) ==
    IF ValidSock(s)
    THEN Log([w EXCEPT !.sr[s] = "CLOSED", !.rxq[s] = <<>>, !.peer[s] = 0,
                       !.snreg[s] = NoReg],
             "close", s, 0)
    ELSE Log(w, "close", s, -1)

\* wiznet::socket(sn, mode, port, flag): ok is the chip's answer.  An open
\* socket is closed first.
hw_socket(w, s, mode, ok) ==
    IF ok
    THEN Log([w EXCEPT !.sr[s] = IF mode = "TCP" THEN "INIT" ELSE "UDP",
                       !.rxq[s] = <<>>, !.peer[s] = 0], "socket", s, 0)
    ELSE Log(w, "socket", s, -1)

\* wiznet::listen(sn): a failed listen closes the socket.
hw_listen(w, s, ok) ==
    IF ok THEN Log([w EXCEPT !.sr[s] = "LISTEN"], "listen", s, 0)
    ELSE Log([w EXCEPT !.sr[s] = "CLOSED"], "listen", s, -1)

\* wiznet::connect(sn, addr, port): blocks until established, or until the
\* chip gives up and closes the socket.
hw_connect(w, s, ok) ==
    IF ok THEN Log([w EXCEPT !.sr[s] = "ESTABLISHED"], "connect", s, 0)
    ELSE Log([w EXCEPT !.sr[s] = "CLOSED"], "connect", s, -1)

\* wiznet::disconnect(sn): only for a socket in TCP mode; release of the slot.
hw_disconnect(w, s) ==
    IF ValidSock(s) /\ w.sr[s] \in TcpStatus
    THEN Log([w EXCEPT !.sr[s] = "CLOSED", !.rxq[s] = <<>>, !.peer[s] = 0],
             "disconnect", s, 0)
    ELSE Log(w, "disconnect", s, -1)

Min(a, b) == IF a < b THEN a ELSE b
Max(a, b) == IF a > b THEN a ELSE b

\* Number of bytes wiznet::recv(sn, buf, len) returns: the pending bytes, at
\* most len; SOCK_BUSY (0) with nothing pending, an error for a socket
\* number that is no socket of the chip.
hw_recv_count(w, s, len) ==
    IF ~ValidSock(s) THEN -1
    ELSE IF w.sr[s] \in {"ESTABLISHED", "CLOSE_WAIT"} /\ len > 0
         THEN Min(len, Len(w.rxq[s]))
         ELSE 0

\* The results wiznet::send(sn, buf, len) can have: an error for a socket
\* number that is no socket of the chip (SOCKERR_SOCKNUM), for a socket that
\* is not connected (SOCKERR_SOCKSTATUS) and for len = 0 (SOCKERR_DATALEN);
\* otherwise the number of bytes accepted, at most len and at most the send
\* buffer, SOCK_BUSY, or SOCKERR_TIMEOUT.
SendAnswers(w, s, len) ==
    IF ~ValidSock(s) THEN {-1}
    ELSE IF w.sr[s] \notin {"ESTABLISHED", "CLOSE_WAIT"} THEN {-7}
    ELSE IF len = 0 THEN {-14}
    ELSE {SOCK_BUSY, -13} \cup (1 .. Min(len, TX_BUF))

\* wiznet::send(sn, buf + from, len) with the result a: the chip takes the
\* first a bytes at buf + from (the byte at buf + i is i + 1); a send that
\* times out closes the socket.
hw_send(w, s, from, len, a) ==
    LET w1 == Log(w, "send", s, a)
    IN  IF a > 0
        THEN [w1 EXCEPT !.txLog = @ \o [i \in 1 .. a |-> from + i]]
        ELSE IF a = -13
        THEN [w1 EXCEPT !.sr[s] = "CLOSED", !.rxq[s] = <<>>, !.peer[s] = 0]
        ELSE w1

\* ------------------------------------------------------------ socket pool

\* Mutant of socketScan: the loop stops one socket short.
RECURSIVE socketScan_short(_, _)
socketScan_short(w, ii) ==
    IF ii >= NUM_SOCKETS - 1 THEN -1
    ELSE IF w.sr[ii] = "CLOSED" THEN ii
    ELSE socketScan_short(w, ii + 1)

\* The loop of socketGetFree from index ii on.
RECURSIVE socketScan(_, _)
socketScan(w, ii) ==
    IF ii >= NUM_SOCKETS THEN -1
    ELSE IF w.sr[ii] = "CLOSED" THEN ii
    ELSE socketScan(w, ii + 1)

\* IsolatedEthernet::socketGetFree
socketGetFree(w) == socketScan(w, 0)

NumClosed(w) == Cardinality({s \in Slots : w.sr[s] = "CLOSED"})

\* A call of socketGetFree, noted with the number of closed slots it saw.
LogGetFree(w) == Log(w, "socketGetFree", socketGetFree(w), NumClosed(w))

\* ------------------------------------------------------------ TCPClient

BufIndex == 0 .. (TCPCLIENT_BUF_MAX_SIZE - 1)
EmptyBuffer == [i \in BufIndex |-> 0]

D(w, h) == w.d_[h]

\* TCPClient::sock_handle
sock_handle(w, h) == w.dsock[D(w, h)]

\* socket_handle_valid
socket_handle_valid(s) == s >= 0

\* TCPClient::isOpen(sd)
isOpen(w, sd, garbage) == hw_status(w, sd, garbage) = "ESTABLISHED"

\* TCPClient::bufferCount
bufferCount(w, h) == w.dtotal[D(w, h)] - w.doffset[D(w, h)]

\* Mutant of flush_buffer: forgets the read offset.
flush_buffer_totalOnly(w, h) ==
    [w EXCEPT !.dtotal[D(w, h)] = 0]

\* TCPClient::flush_buffer
flush_buffer(w, h) ==
    [w EXCEPT !.doffset[D(w, h)] = 0, !.dtotal[D(w, h)] = 0]

\* TCPClient::Data::Data(sock), for the Data object d
NewDataAt(w, d, sock) ==
    [w EXCEPT !.dsock[d] = sock, !.doffset[d] = 0, !.dtotal[d] = 0,
              !.dbuffer[d] = EmptyBuffer, !.dremoteIP[d] = 0]

\* TCPClient::Data::~Data, for the Data object d
DestroyData(w, d) ==
    LET w1 == IF socket_handle_valid(w.dsock[d]) THEN hw_close(w, w.dsock[d])
              ELSE w
    IN  NewDataAt(w1, d, -1)

Referenced(w) == {w.d_[h] : h \in Handles}
FreshData(w) == CHOOSE d \in DataIds \ Referenced(w) :
                    \A e \in DataIds \ Referenced(w) : d <= e

\* Assignment of a shared_ptr<Data>: handle h refers to d from now on; the
\* Data object it referred to is destroyed with its last reference.
SetHandle(w, h, d) ==
    LET old == w.d_[h]
        w1 == [w EXCEPT !.d_[h] = d]
    IN  IF old \notin Referenced(w1) THEN DestroyData(w1, old) ELSE w1

\* Mutant of recvToBuffer: stores the received bytes at the start of the
\* buffer instead of after the bytes it holds.
recvToBuffer_atStart(w, h) ==
    LET d == D(w, h)
        s == sock_handle(w, h)
        r == hw_recv_count(w, s, TCPCLIENT_BUF_MAX_SIZE - w.dtotal[d])
        w1 == Log(w, "recv", s, r)
    IN  IF r > 0
        THEN [w1 EXCEPT
                !.dbuffer[d] = [i \in BufIndex |->
                    IF i < r THEN w.rxq[s][i + 1] ELSE @[i]],
                !.rxq[s] = SubSeq(@, r + 1, Len(@)),
                !.doffset[d] = IF w.dtotal[d] = 0 THEN 0 ELSE @,
                !.dtotal[d] = @ + r,
                !.recvLog = IF h = 1 THEN @ \o SubSeq(w.rxq[s], 1, r) ELSE @]
        ELSE w1

\* The bytes wiznet::recv copies to buffer + total, and what available()
\* does with its result (lines 2500-2507).
recvToBuffer(w, h) ==
    LET d == D(w, h)
        s == sock_handle(w, h)
        r == hw_recv_count(w, s, TCPCLIENT_BUF_MAX_SIZE - w.dtotal[d])
        w1 == Log(w, "recv", s, r)
    IN  IF r > 0
        THEN [w1 EXCEPT
                !.dbuffer[d] = [i \in BufIndex |->
                    IF i >= w.dtotal[d] /\ i < w.dtotal[d] + r
                    THEN w.rxq[s][i - w.dtotal[d] + 1] ELSE @[i]],
                !.rxq[s] = SubSeq(@, r + 1, Len(@)),
                !.doffset[d] = IF w.dtotal[d] = 0 THEN 0 ELSE @,
                !.dtotal[d] = @ + r,
                !.recvLog = IF h = 1 THEN @ \o SubSeq(w.rxq[s], 1, r) ELSE @]
        ELSE w1

\* Mutant of TCPClient::available: reads from the chip only into an empty
\* buffer.
available_whenDrained(w, h, garbage) ==
    LET d == D(w, h)
        w1 == IF w.dtotal[d] # 0 /\ w.doffset[d] = w.dtotal[d]
              THEN flush_buffer(w, h) ELSE w
        w2 == IF w1.isReady /\ isOpen(w1, sock_handle(w1, h), garbage)
              THEN IF w1.dtotal[d] = 0
                   THEN recvToBuffer(w1, h) ELSE w1
              ELSE w1
    IN  [w2 EXCEPT !.ret = bufferCount(w2, h)]

\* TCPClient::available
TCPClient_available(w, h, garbage) ==
    LET d == D(w, h)
        w1 == IF w.dtotal[d] # 0 /\ w.doffset[d] = w.dtotal[d]
              THEN flush_buffer(w, h) ELSE w
        w2 == IF w1.isReady /\ isOpen(w1, sock_handle(w1, h), garbage)
              THEN IF w1.dtotal[d] < TCPCLIENT_BUF_MAX_SIZE
                   THEN recvToBuffer(w1, h) ELSE w1
              ELSE w1
    IN  [w2 EXCEPT !.ret = bufferCount(w2, h)]

\* bufferCount() || available(): the world after the test, ret # 0 when it
\* is true.
HaveData(w, h, garbage) ==
    IF bufferCount(w, h) # 0 THEN [w EXCEPT !.ret = 1]
    ELSE TCPClient_available(w, h, garbage)

\* TCPClient::read()
TCPClient_read(w, h, garbage) ==
    LET w1 == HaveData(w, h, garbage)
        d == D(w, h)
        b == w1.dbuffer[d][w1.doffset[d]]
    IN  IF w1.ret # 0
        THEN [w1 EXCEPT !.ret = b, !.doffset[d] = @ + 1,
                        !.readLog = IF h = 1 THEN Append(@, b) ELSE @]
        ELSE [w1 EXCEPT !.ret = -1]

\* TCPClient::read(buffer, size)
TCPClient_readBuf(w, h, size, garbage) ==
    LET w1 == HaveData(w, h, garbage)
        d == D(w, h)
        read == IF size > bufferCount(w1, h) THEN bufferCount(w1, h) ELSE size
    IN  IF w1.ret # 0
        THEN [w1 EXCEPT !.ret = read, !.doffset[d] = @ + read,
                        !.readLog = IF h = 1
                            THEN @ \o [i \in 1 .. read |->
                                          w1.dbuffer[d][w1.doffset[d] + i - 1]]
                            ELSE @]
        ELSE [w1 EXCEPT !.ret = -1]

\* TCPClient::peek
TCPClient_peek(w, h, garbage) ==
    LET w1 == HaveData(w, h, garbage)
        d == D(w, h)
    IN  IF w1.ret # 0 THEN [w1 EXCEPT !.ret = w1.dbuffer[d][w1.doffset[d]]]
        ELSE [w1 EXCEPT !.ret = -1]

\* Mutant of TCPClient::stop: forgets to give up the socket number.
stop_keepsSock(w, h) ==
    IF sock_handle(w, h) < 0 THEN w
    ELSE LET w1 == hw_disconnect(w, sock_handle(w, h))
             w2 == [w1 EXCEPT !.dremoteIP[D(w, h)] = 0]
         IN  flush_buffer(w2, h)

\* TCPClient::stop
TCPClient_stop(w, h) ==
    IF sock_handle(w, h) < 0 THEN w
    ELSE LET w1 == hw_disconnect(w, sock_handle(w, h))
             w2 == [w1 EXCEPT !.dsock[D(w, h)] = -1, !.dremoteIP[D(w, h)] = 0]
         IN  flush_buffer(w2, h)

\* TCPClient::status
TCPClient_status(w, h, garbage) ==
    isOpen(w, sock_handle(w, h), garbage) /\ w.isReady

\* Mutant of TCPClient::connected: leaves the local buffer out of the answer.
connected_statusOnly(w, h, garbage) ==
    LET rv == TCPClient_status(w, h, garbage)
    IN  IF ~rv /\ isOpen(w, sock_handle(w, h), garbage)
        THEN LET w1 == TCPClient_available(w, h, garbage)
             IN  IF w1.ret # 0 THEN [w1 EXCEPT !.ret = 1]
                 ELSE [TCPClient_stop(w1, h) EXCEPT !.ret = 0]
        ELSE [w EXCEPT !.ret = IF rv THEN 1 ELSE 0]

\* TCPClient::connected
TCPClient_connected(w, h, garbage) ==
    LET rv == TCPClient_status(w, h, garbage) \/ bufferCount(w, h) # 0
    IN  IF ~rv /\ isOpen(w, sock_handle(w, h), garbage)
        THEN LET w1 == TCPClient_available(w, h, garbage)
             IN  IF w1.ret # 0 THEN [w1 EXCEPT !.ret = 1]
                 ELSE [TCPClient_stop(w1, h) EXCEPT !.ret = 0]
        ELSE [w EXCEPT !.ret = IF rv THEN 1 ELSE 0]

\* Mutant of TCPClient::connect: a failed wiznet::connect is not followed
\* by stop().
connect_noStopOnFail(w, h, sockOk, connOk) ==
    LET w0 == TCPClient_stop(w, h)
        w1 == IF h = 1 THEN [w0 EXCEPT !.recvLog = <<>>, !.readLog = <<>>]
              ELSE w0
    IN  IF ~w1.isReady THEN [w1 EXCEPT !.ret = 0]
        ELSE
        LET sock == socketGetFree(w1)
            w2 == LogGetFree(w1)
            w3 == IF sock >= 0
                  THEN LET w31 == hw_socket(w2, sock, "TCP", sockOk)
                       IN  IF sockOk THEN [w31 EXCEPT !.dsock[D(w, h)] = sock]
                           ELSE w31
                  ELSE w2
        IN  IF socket_handle_valid(sock_handle(w3, h))
            THEN LET w4 == flush_buffer(w3, h)
                     w5 == hw_connect(w4, sock_handle(w4, h), connOk)
                     w6 == [w5 EXCEPT !.dremoteIP[D(w, h)] = 1]
                 IN  [w6 EXCEPT !.ret = IF connOk THEN 1 ELSE 0]
            ELSE [w3 EXCEPT !.ret = 0]

\* TCPClient::connect(IPAddress ip, port): sockOk and connOk are the answers
\* of wiznet::socket and wiznet::connect.
TCPClient_connect(w, h, sockOk, connOk) ==
    LET w0 == TCPClient_stop(w, h)
        w1 == IF h = 1 THEN [w0 EXCEPT !.recvLog = <<>>, !.readLog = <<>>]
              ELSE w0
    IN  IF ~w1.isReady THEN [w1 EXCEPT !.ret = 0]
        ELSE
        LET sock == socketGetFree(w1)
            w2 == LogGetFree(w1)
            w3 == IF sock >= 0
                  THEN LET w31 == hw_socket(w2, sock, "TCP", sockOk)
                       IN  IF sockOk THEN [w31 EXCEPT !.dsock[D(w, h)] = sock]
                           ELSE w31
                  ELSE w2
        IN  IF socket_handle_valid(sock_handle(w3, h))
            THEN LET w4 == flush_buffer(w3, h)
                     w5 == hw_connect(w4, sock_handle(w4, h), connOk)
                     w6 == [w5 EXCEPT !.dremoteIP[D(w, h)] = 1]
                 IN  IF connOk THEN [w6 EXCEPT !.ret = 1]
                     ELSE [TCPClient_stop(w6, h) EXCEPT !.ret = 0]
            ELSE [w3 EXCEPT !.ret = 0]

\* No write() is active.
NoWrite ==
    [pc |-> "idle", size |-> 0, timeout |-> 0, offset |-> 0, ret |-> -1,
     elapsed |-> 0, chunks |-> <<>>]

\* The timeouts given to write(): 0, one that can expire, and the value
\* TCPServer::write(buffer, size) passes.
Timeouts == {0, SendTimeout, SOCKET_WAIT_FOREVER}

\* TCPClient::write(buffer, size, timeout) up to its loop (lines 2449-2453)
write_begin(w, size, timeout) ==
    [w EXCEPT !.writeError = 0, !.txLog = <<>>,
              !.wr = [pc |-> "loop", size |-> size, timeout |-> timeout,
                      offset |-> 0, ret |-> -1, elapsed |-> 0,
                      chunks |-> <<>>]]

\* return ret (line 2476): the int is converted to size_t.
write_return(w) ==
    [w EXCEPT !.wr.pc = "done", !.ret = w.wr.ret % (2 ^ SizeWidth)]

\* delay(1) and the condition of the loop (lines 2470-2471): dt ms have
\* passed since the condition was last evaluated.
write_loopTest(w, dt) ==
    LET w1 == [w EXCEPT !.wr.elapsed = Min(@ + dt, MaxElapsed)]
    IN  IF w1.wr.timeout # 0 /\ w1.wr.elapsed < w1.wr.timeout THEN w1
        ELSE write_return(w1)

\* Mutant of write_iteration: every send starts at the start of the buffer.
write_iteration_fromStart(w, h, a, dt) ==
    LET o == w.wr.offset
        w1 == hw_send(w, sock_handle(w, h), 0, w.wr.size - o, a)
        w2 == [w1 EXCEPT !.wr.ret = a]
    IN  IF a > 0
        THEN LET w3 == [w2 EXCEPT !.wr.offset = @ + a,
                                  !.wr.chunks = Append(@, <<o, a>>)]
             IN  IF w3.wr.offset = w3.wr.size
                 THEN write_return([w3 EXCEPT !.wr.ret = w3.wr.size])
                 ELSE write_loopTest(w3, dt)
        ELSE IF a # SOCK_BUSY
        THEN write_return([w2 EXCEPT !.writeError = a])
        ELSE write_loopTest(w2, dt)

\* One pass of the loop of TCPClient::write (lines 2455-2471), and the
\* return that follows when the loop is left: a is the result of
\* wiznet::send.  The chunks accepted are noted as <<offset, count>>.
write_iteration(w, h, a, dt) ==
    LET o == w.wr.offset
        w1 == hw_send(w, sock_handle(w, h), o, w.wr.size - o, a)
        w2 == [w1 EXCEPT !.wr.ret = a]
    IN  IF a > 0
        THEN LET w3 == [w2 EXCEPT !.wr.offset = @ + a,
                                  !.wr.chunks = Append(@, <<o, a>>)]
             IN  IF w3.wr.offset = w3.wr.size
                 THEN write_return([w3 EXCEPT !.wr.ret = w3.wr.size])
                 ELSE write_loopTest(w3, dt)
        ELSE IF a # SOCK_BUSY
        THEN write_return([w2 EXCEPT !.writeError = a])
        ELSE write_loopTest(w2, dt)

\* ------------------------------------------------------------ IsolatedEthernet

\* IsolatedEthernet::callCallbacks
callCallbacks(w, type) == [w EXCEPT !.ev = Append(@, type)]

\* ipAddr[0] != 0 || ipAddr[1] != 0 || ipAddr[2] != 0 || ipAddr[3] != 0
ipNonZero(w) == w.ipAddr # 0

\* IsolatedEthernet::updateAddressSettings: the registers of the chip are
\* written and the link is read from the chip again.
updateAddressSettings(w) ==
    LET w1 == [w EXCEPT !.netInfo = [ip |-> w.ipAddr,
                                     sn |-> w.subnetMaskArray,
                                     gw |-> w.gatewayAddr,
                                     dns |-> w.dnsAddr,
                                     dhcp |-> w.dhcpState # "NOT_USED"]]
    IN  IF w1.hwLink THEN [w1 EXCEPT !.isReady = TRUE] ELSE w1

\* IsolatedEthernet::updateAddressSettingsFromDHCP: 2 is what the lease gives
updateAddressSettingsFromDHCP(w) ==
    updateAddressSettings([w EXCEPT !.ipAddr = 2, !.subnetMaskArray = 2,
                                    !.gatewayAddr = 2, !.dnsAddr = 2])

\* IsolatedEthernet::withStaticIP
withStaticIP(w) ==
    IF w.dhcpState \in {"IN_PROGRESS", "GOT_ADDRESS"}
    THEN [w EXCEPT !.dhcpState = "CLEANUP_DISABLE"]
    ELSE [w EXCEPT !.dhcpState = "NOT_USED"]

\* withStaticIP as the foreground thread runs it: the switch reads dhcpState
\* and selects the value to assign (lines 1978-1981, 1985) ...
withStaticIP_switch(w) ==
    LET inDhcp == w.dhcpState \in {"IN_PROGRESS", "GOT_ADDRESS"}
    IN  [w EXCEPT !.pc.call = IF inDhcp THEN "CLEANUP_DISABLE"
                              ELSE "NOT_USED",
                  !.pc.asked = inDhcp]

\* ... and the selected branch assigns it (lines 1982, 1986).
withStaticIP_assign(w) ==
    [w EXCEPT !.dhcpState = w.pc.call, !.pc.call = "idle"]

\* IsolatedEthernet::withDHCP
withDHCP(w) == [w EXCEPT !.ipAddr = 0, !.dhcpState = "ATTEMPT"]

\* IsolatedEthernet::withIPAddress
withIPAddress(w, ip) == [withStaticIP(w) EXCEPT !.ipAddr = ip]

\* IsolatedEthernet::withSubnetMask
withSubnetMask(w, ip) == [withStaticIP(w) EXCEPT !.subnetMaskArray = ip]

\* IsolatedEthernet::withGatewayAddress
withGatewayAddress(w, ip) == [withStaticIP(w) EXCEPT !.gatewayAddr = ip]

\* IsolatedEthernet::withDNSAddress
withDNSAddress(w, ip) == [withStaticIP(w) EXCEPT !.dnsAddr = ip]

\* Mutant of ip_assign: calls the gotIpAddress callbacks itself.
ip_assign_fires(w) ==
    LET w1 == Log(w, "ip_assign", w.DHCP_SOCKET, 0)
    IN  callCallbacks(
            [updateAddressSettingsFromDHCP(w1) EXCEPT
                !.dhcpState = "GOT_ADDRESS",
                !.linkEvents = IF @ = 1 THEN 2 ELSE @], "gotIpAddress")

\* IsolatedEthernet::loadJsonConfig: the keys of the object in order, each
\* a pair <<name, value>>; a value that is no address gives 0.0.0.0.
RECURSIVE loadJsonConfig(_, _)
loadJsonConfig(w, cfg) ==
    IF cfg = <<>> THEN w
    ELSE LET name == cfg[1][1]
             value == cfg[1][2]
             w1 == CASE name = "ipAddr" -> withIPAddress(w, value)
                     [] name = "subnetMask" -> withSubnetMask(w, value)
                     [] name = "gatewayAddr" -> withGatewayAddress(w, value)
                     [] name = "dnsAddr" -> withDNSAddress(w, value)
                     [] name = "DHCP" -> IF value # 0 THEN withDHCP(w)
                                         ELSE withStaticIP(w)
                     [] OTHER -> w
         IN  loadJsonConfig(w1, Tail(cfg))

\* The ip_assign callback setup() registers (lines 1773-1778); a lease is
\* the second event of the link scenario.
ip_assign(w) ==
    LET w1 == Log(w, "ip_assign", w.DHCP_SOCKET, 0)
    IN  [updateAddressSettingsFromDHCP(w1) EXCEPT
            !.dhcpState = "GOT_ADDRESS",
            !.linkEvents = IF @ = 1 THEN 2 ELSE @]

\* IsolatedEthernet::setup: the part after the chip is initialised.
setup(w) ==
    LET w1 == [w EXCEPT !.netInfo = [ip |-> 0, sn |-> 0, gw |-> 0, dns |-> 0,
                                     dhcp |-> w.dhcpState # "NOT_USED"],
                        !.dhcpCallbacks = (w.dhcpState = "ATTEMPT"),
                        !.setupDone = TRUE]
    IN  IF ipNonZero(w1) THEN updateAddressSettings(w1) ELSE w1

\* DHCP_init(s, buf) of dhcp.cpp: the socket is noted, not opened.
DHCP_init(w, s) == Log([w EXCEPT !.DHCP_SOCKET = s], "DHCP_init", s, 0)

\* DHCP_run of dhcp.cpp: opens its socket in UDP mode when it is not, and
\* runs the lease protocol; lease says that this call completes a lease,
\* which it reports through the registered callback.
DHCP_run(w, lease) ==
    LET s == w.DHCP_SOCKET
        w1 == IF w.sr[s] # "UDP" THEN hw_socket(w, s, "UDP", TRUE) ELSE w
    IN  IF lease /\ w.sr[s] = "UDP" /\ w.dhcpCallbacks THEN ip_assign(w1)
        ELSE w1

\* DHCP_stop of dhcp.cpp
DHCP_stop(w) == hw_close(w, w.DHCP_SOCKET)

\* Mutant of linkEdge: the sampled link state is not stored in phyLink.
linkEdge_noSample(w) ==
    LET curPhyLink == w.hwLink
    IN  IF curPhyLink # w.phyLink
        THEN IF curPhyLink
             THEN LET u == callCallbacks(w, "linkUp")
                  IN  IF u.dhcpState = "NOT_USED" /\ ipNonZero(u)
                      THEN callCallbacks([u EXCEPT !.isReady = TRUE],
                                         "gotIpAddress")
                      ELSE u
             ELSE [callCallbacks(w, "linkDown") EXCEPT !.isReady = FALSE]
        ELSE w

\* Mutant of linkEdge: a link-down edge leaves isReady as it is.
linkEdge_keepsReady(w) ==
    LET curPhyLink == w.hwLink
    IN  IF curPhyLink # w.phyLink
        THEN LET w1 ==
                   IF curPhyLink
                   THEN LET u == callCallbacks(w, "linkUp")
                        IN  IF u.dhcpState = "NOT_USED" /\ ipNonZero(u)
                            THEN callCallbacks([u EXCEPT !.isReady = TRUE],
                                               "gotIpAddress")
                            ELSE u
                   ELSE callCallbacks(w, "linkDown")
             IN  [w1 EXCEPT !.phyLink = curPhyLink]
        ELSE w

\* The link edge of stateMachine (lines 1807-1834)
linkEdge(w) ==
    LET curPhyLink == w.hwLink
    IN  IF curPhyLink # w.phyLink
        THEN LET w1 ==
                   IF curPhyLink
                   THEN LET u == callCallbacks(w, "linkUp")
                        IN  IF u.dhcpState = "NOT_USED" /\ ipNonZero(u)
                            THEN callCallbacks([u EXCEPT !.isReady = TRUE],
                                               "gotIpAddress")
                            ELSE u
                   ELSE [callCallbacks(w, "linkDown") EXCEPT !.isReady = FALSE]
             IN  [w1 EXCEPT !.phyLink = curPhyLink]
        ELSE w

\* Mutant of caseAttemptInit: without a socket the machine stays in ATTEMPT
\* and tries again on the next pass.
caseAttemptInit_retry(w, dhcpSocket) ==
    IF dhcpSocket >= 0
    THEN [DHCP_init(w, dhcpSocket) EXCEPT
             !.dhcpState = "IN_PROGRESS",
             !.inProgressCount = IF @ < MaxInProgress THEN @ + 1 ELSE @]
    ELSE w

\* case DhcpState::ATTEMPT of stateMachine after 'int dhcpSocket =
\* socketGetFree()' (lines 1847-1856)
caseAttemptInit(w, dhcpSocket) ==
    IF dhcpSocket >= 0
    THEN [DHCP_init(w, dhcpSocket) EXCEPT
             !.dhcpState = "IN_PROGRESS",
             !.inProgressCount = IF @ < MaxInProgress THEN @ + 1 ELSE @]
    ELSE [w EXCEPT !.dhcpState = "DONE"]

\* Mutant of caseInProgress: a lease that has completed in this pass is
\* delivered before the link drop is handled.
caseInProgress_leaseFirst(w, lease) ==
    LET w1 == DHCP_run(w, lease)
    IN  IF ~w1.phyLink /\ w1.dhcpState # "GOT_ADDRESS"
        THEN [w1 EXCEPT !.dhcpState = "CLEANUP"] ELSE w1

\* case DhcpState::IN_PROGRESS of stateMachine (lines 1859-1872)
caseInProgress(w, lease) ==
    LET w1 == DHCP_run(w, lease)
    IN  IF ~w1.phyLink THEN [w1 EXCEPT !.dhcpState = "CLEANUP"] ELSE w1

\* case DhcpState::GOT_ADDRESS of stateMachine (lines 1874-1878)
caseGotAddress(w) ==
    [callCallbacks(w, "gotIpAddress") EXCEPT !.dhcpState = "CLEANUP"]

\* case DhcpState::CLEANUP and CLEANUP_DISABLE of stateMachine (lines
\* 1880-1891): dhcpState is read again after DHCP_stop() and the delete.
caseCleanup(w) ==
    LET w1 == [DHCP_stop(w) EXCEPT !.dhcpBuffer = FALSE]
    IN  IF w.dhcpState = "CLEANUP_DISABLE"
        THEN [w1 EXCEPT !.dhcpState = "NOT_USED"]
        ELSE [w1 EXCEPT !.dhcpState = "DONE"]

\* The switch on dhcpState of stateMachine (lines 1836-1901)
dhcpSwitch(w, lease) ==
    CASE w.dhcpState = "ATTEMPT" ->
            IF w.phyLink
            THEN LET w1 == [w EXCEPT !.dhcpBuffer = TRUE]
                 IN  caseAttemptInit(LogGetFree(w1), socketGetFree(w1))
            ELSE w
      [] w.dhcpState = "IN_PROGRESS" -> caseInProgress(w, lease)
      [] w.dhcpState = "GOT_ADDRESS" -> caseGotAddress(w)
      [] w.dhcpState \in {"CLEANUP", "CLEANUP_DISABLE"} -> caseCleanup(w)
      [] w.dhcpState = "DONE" ->
            IF ~w.phyLink THEN [w EXCEPT !.dhcpState = "ATTEMPT"] ELSE w
      [] OTHER -> w

\* The DNS timer of stateMachine (lines 1903-1910): with dnsBuffer not
\* NULL, DNS_time_handler() is called when a second has passed (dnsDue).
dnsTimer(w, dnsDue) ==
    IF w.dnsBuffer # "NULL" /\ dnsDue THEN Log(w, "DNS_time_handler", 0, 0)
    ELSE w

\* IsolatedEthernet::stateMachine
stateMachine(w, lease, dnsDue) ==
    dnsTimer(dhcpSwitch(linkEdge(w), lease), dnsDue)

\* stateMachine as the maintenance thread runs it beside a foreground call.
\* dhcpState is a plain member that both threads read and write without a
\* lock.  The pass handles the link edge and its switch reads dhcpState
\* (lines 1807-1836); a case that concerns DHCP in progress is selected
\* here and runs in the next step, any other case runs at once ...
stateMachine_switch(w, dnsDue) ==
    LET w1 == linkEdge(w)
    IN  IF w1.dhcpState \in {"IN_PROGRESS", "GOT_ADDRESS"}
        THEN [w1 EXCEPT !.pc.thread = w1.dhcpState]
        ELSE IF w1.dhcpState \in {"CLEANUP", "CLEANUP_DISABLE"}
        THEN [w1 EXCEPT !.pc.thread = "CLEANUP"]
        ELSE dnsTimer(dhcpSwitch(w1, FALSE), dnsDue)

\* ... and the selected case runs on the members as they are by then, and
\* the pass ends with the DNS timer.
stateMachine_case(w, lease, dnsDue) ==
    LET w1 == [w EXCEPT !.pc.thread = "idle"]
    IN  dnsTimer(CASE w.pc.thread = "IN_PROGRESS" -> caseInProgress(w1, lease)
                   [] w.pc.thread = "GOT_ADDRESS" -> caseGotAddress(w1)
                   [] w.pc.thread = "CLEANUP" -> caseCleanup(w1)
                   [] OTHER -> w1,
                 dnsDue)

\* stateMachine as the maintenance thread runs it beside a foreground call
\* that allocates a socket.  Up to 'int dhcpSocket = socketGetFree()' of
\* case ATTEMPT (lines 1807-1846); a pass that does not get there runs to
\* its end ...
stateMachine_getFree(w, lease, dnsDue) ==
    LET w1 == linkEdge(w)
    IN  IF w1.dhcpState = "ATTEMPT" /\ w1.phyLink
        THEN LET w2 == [w1 EXCEPT !.dhcpBuffer = TRUE]
             IN  [LogGetFree(w2) EXCEPT !.pc.thread = "ATTEMPT",
                                        !.pc.dhcpSocket = socketGetFree(w2)]
        ELSE dnsTimer(dhcpSwitch(w1, lease), dnsDue)

\* ... and from there to the end of the pass (lines 1847-1910).
stateMachine_init(w, dnsDue) ==
    dnsTimer(caseAttemptInit([w EXCEPT !.pc.thread = "idle",
                                       !.pc.dhcpSocket = -1],
                             w.pc.dhcpSocket), dnsDue)

\* new uint8_t[MAX_DNS_BUF_SIZE] when dnsBuffer is NULL (lines 1935-1942)
dnsAlloc(w) ==
    IF w.dnsBuffer = "NULL" THEN [w EXCEPT !.dnsBuffer = "LIVE"] ELSE w

\* delete[] dnsBuffer (line 1971): the array is freed and the pointer keeps
\* its value.  The delete of an array that is freed already is noted -1.
dnsFree(w) ==
    [Log(w, "delete", 0, IF w.dnsBuffer = "LIVE" THEN 0 ELSE -1)
        EXCEPT !.dnsBuffer = "FREED"]

\* DNS_init(s, buf) of dns.cpp notes the socket and the buffer; one that
\* points to a freed array is noted -1.
DNS_init(w, s) ==
    Log(w, "DNS_init", s, IF w.dnsBuffer = "LIVE" THEN 0 ELSE -1)

\* IsolatedEthernet::inet_gethostbyname: DNS_run (dns.cpp) opens the socket
\* it was given in UDP mode, asks, and closes it; dnsOk is its answer.
inet_gethostbyname(w, dnsOk) ==
    LET w0 == dnsAlloc(w)
        dnsSocket == socketGetFree(w0)
        w1 == LogGetFree(w0)
    IN  IF dnsSocket >= 0
        THEN LET w2 == hw_close(hw_socket(DNS_init(w1, dnsSocket), dnsSocket,
                                          "UDP", TRUE), dnsSocket)
             IN  [dnsFree(w2) EXCEPT !.ret = IF dnsOk THEN 0 ELSE -1]
        ELSE [dnsFree(w1) EXCEPT !.ret = -1]

\* TCPClient::connect(const char *host, port)
TCPClient_connectHost(w, h, dnsOk, sockOk, connOk) ==
    LET w1 == TCPClient_stop(w, h)
    IN  IF w1.isReady
        THEN LET w2 == inet_gethostbyname(w1, dnsOk)
             IN  IF w2.ret = 0 THEN TCPClient_connect(w2, h, sockOk, connOk)
                 ELSE [w2 EXCEPT !.ret = 0]
        ELSE [w1 EXCEPT !.ret = 0]

\* ------------------------------------------------------------ TCPServer

\* TCPServer::startListener
TCPServer_startListener(w, sockOk, listenOk) ==
    LET sock == socketGetFree(w)
        w1 == LogGetFree(w)
    IN  IF sock >= 0
        THEN LET w2 == hw_socket(w1, sock, "TCP", sockOk)
             IN  IF sockOk
                 THEN [hw_listen([w2 EXCEPT !.srvSock = sock], sock, listenOk)
                          EXCEPT !.ret = IF listenOk THEN 1 ELSE 0]
                 ELSE [w2 EXCEPT !.ret = 0]
        ELSE [w1 EXCEPT !.ret = 0]

\* TCPServer::stop
TCPServer_stop(w) ==
    LET w1 == TCPClient_stop(w, SrvHandle)
        w2 == IF w1.srvSock >= 0 THEN hw_disconnect(w1, w1.srvSock) ELSE w1
    IN  [w2 EXCEPT !.srvSock = -1]

\* Mutant of TCPServer_begin: the listener is started whether the network is
\* ready or not.
TCPServer_begin_noReadyTest(w, sockOk, listenOk) ==
    LET w1 == TCPServer_stop(w)
    IN  IF socket_handle_valid(w1.srvSock) THEN [w1 EXCEPT !.ret = 1]
        ELSE TCPServer_startListener(w1, sockOk, listenOk)

\* TCPServer::begin
TCPServer_begin(w, sockOk, listenOk) ==
    LET w1 == TCPServer_stop(w)
    IN  IF socket_handle_valid(w1.srvSock) THEN [w1 EXCEPT !.ret = 1]
        ELSE IF w1.isReady THEN TCPServer_startListener(w1, sockOk, listenOk)
        ELSE [w1 EXCEPT !.ret = 0]

\* TCPServer::available, and the assignment of its result to the handle
\* target of the caller (0: the result is dropped).  ret is the socket of
\* the handle returned.
TCPServer_available(w, target, garbage, sockOk, listenOk) ==
    LET w1 == IF w.srvSock < 0 THEN TCPServer_begin(w, sockOk, listenOk)
              ELSE w
        status == hw_status(w1, w1.srvSock, garbage)
        w2 == IF status # "ESTABLISHED"
              THEN SetHandle(w1, SrvHandle, w1.d_[InvHandle])
              ELSE LET d == FreshData(w1)
                       c == [NewDataAt(w1, d, w1.srvSock)
                                EXCEPT !.dremoteIP[d] = 1]
                   IN  TCPServer_startListener(SetHandle(c, SrvHandle, d),
                                               sockOk, listenOk)
        w3 == IF target \in UserHandles
              THEN SetHandle(w2, target, w2.d_[SrvHandle]) ELSE w2
    IN  [w3 EXCEPT !.ret = sock_handle(w3, SrvHandle)]

\* ------------------------------------------------------------ UDP

NumBound(w) ==
    LET RECURSIVE sum(_)
        sum(s) == IF s < 0 THEN 0 ELSE w.udpCount[s] + sum(s - 1)
    IN  sum(NUM_SOCKETS - 1)

\* UDP::isOpen
UDP_isOpen(w, sn, garbage) == hw_status(w, sn, garbage) = "UDP"

\* UDP::stop of a UDP object whose _sock is old (-1: not bound)
UDP_stop(w, old, garbage) ==
    LET w1 == IF UDP_isOpen(w, old, garbage) THEN hw_close(w, old) ELSE w
    IN  IF ValidSock(old) THEN [w1 EXCEPT !.udpCount[old] = @ - 1] ELSE w1

\* UDP::begin of a UDP object whose _sock is old (-1: not bound)
UDP_begin(w, old, garbage, sockOk) ==
    LET w1 == UDP_stop(w, old, garbage)
        sock == socketGetFree(w1)
        w2 == LogGetFree(w1)
    IN  IF sock >= 0
        THEN LET w3 == hw_socket(w2, sock, "UDP", sockOk)
             IN  IF sockOk
                 THEN [w3 EXCEPT !.udpCount[sock] = @ + 1, !.ret = 1]
                 ELSE [w3 EXCEPT !.ret = 0]
        ELSE [w2 EXCEPT !.ret = 0]

\* ------------------------------------------------------------ one UDP object

Ports == {1, 2}             \* port numbers; 0: none
Groups == {1, 2}            \* addresses; 0: 0.0.0.0
Datagrams == [ip : Groups, port : Ports, len : 1 .. MaxDgram]

\* UDP::UDP(): _port has no initial value (0 stands for it); data is the
\* array _buffer points to, written the bytes written to the buffer since
\* flush_buffer last reset the cursor.
NewUDP ==
    [sock |-> -1, port |-> 0, offset |-> 0, total |-> 0, buffer |-> "NULL",
     buffer_size |-> UDP_BUFFER_SIZE, allocated |-> FALSE, data |-> <<>>,
     remoteIP |-> 0, remotePort |-> 0, written |-> <<>>]

\* wiznet::socket(sn, Sn_MR_UDP, port, flag), multi: flag has Sn_MR_MULTI;
\* dipr: what setSn_DIPR(sn, addr) wrote before, which is the group the
\* socket joins when it is opened with Sn_MR_MULTI.
hw_socketUdp(w, s, port, multi, dipr, ok) ==
    LET w1 == hw_socket(w, s, "UDP", ok)
    IN  IF ok
        THEN [w1 EXCEPT !.snreg[s] = [port |-> port, multi |-> multi,
                                      group |-> IF multi THEN dipr ELSE 0]]
        ELSE w1

\* wiznet::sendto(sn, buf, len, addr, port): the errors of socket.cpp
\* (socket number, length 0, address 0.0.0.0, port 0, socket not open in UDP
\* mode, timeout of the transmission), else the datagram is sent whole.
hw_sendto(w, s, d, ip, port, ok) ==
    LET r == IF ~ValidSock(s) THEN -1
             ELSE IF Len(d) = 0 THEN -14
             ELSE IF ip = 0 THEN -12
             ELSE IF port = 0 THEN -11
             ELSE IF w.sr[s] # "UDP" THEN -7
             ELSE IF ~ok THEN -13
             ELSE Len(d)
        w1 == Log(w, "sendto", s, r)
    IN  IF r > 0
        THEN [w1 EXCEPT !.ret = r,
                        !.udpSent = Append(@, [sock |-> s, data |-> d,
                                               ip |-> ip, port |-> port])]
        ELSE [w1 EXCEPT !.ret = r]

\* wiznet::recvfrom(sn, buf, len, addr, &port) on a socket with a datagram
\* pending (or garbage): the errors of socket.cpp, else the first datagram is
\* taken, its first len bytes copied, the rest of it discarded, and addr and
\* port are set to its sender.  On an error addr and port are not written.
hw_recvfrom(w, s, len) ==
    LET r == IF ~ValidSock(s) THEN -1
             ELSE IF w.sr[s] # "UDP" THEN -5
             ELSE IF len = 0 THEN -14
             ELSE Min(len, Head(w.rxq[s]).len)
        w1 == Log(w, "recvfrom", s, r)
    IN  IF r > 0 THEN [w1 EXCEPT !.rxq[s] = Tail(@), !.ret = r]
        ELSE [w1 EXCEPT !.ret = r]

\* getSn_RX_RSR(sn) > 0; for a socket the chip does not have the register
\* read is garbage.
hw_rxPending(w, s, garbage) ==
    IF ValidSock(s) THEN w.rxq[s] # <<>> ELSE garbage

\* UDP::flush_buffer
UDP_flush_buffer(w) ==
    [w EXCEPT !.udp.offset = 0, !.udp.total = 0, !.udp.written = <<>>]

\* UDP::releaseBuffer
UDP_releaseBuffer(w) ==
    UDP_flush_buffer([w EXCEPT !.udp.buffer = "NULL",
                               !.udp.allocated = FALSE,
                               !.udp.buffer_size = 0,
                               !.udp.data = <<>>])

\* UDP::setBuffer(buf_size, buffer); buffer is "NULL" or "USER"
UDP_setBuffer(w, buf_size, buffer) ==
    LET w1 == UDP_releaseBuffer(w)
        alloc == buffer = "NULL" /\ buf_size # 0
        b == IF alloc THEN "HEAP" ELSE buffer
        size == IF b # "NULL" THEN buf_size ELSE 0
    IN  [w1 EXCEPT !.udp.buffer = b,
                   !.udp.allocated = alloc,
                   !.udp.buffer_size = size,
                   !.udp.data = [i \in 1 .. size |-> 0],
                   !.ret = IF size # 0 THEN 1 ELSE 0]

\* UDP::stop of the UDP object
UDP_stopSelf(w, garbage) ==
    UDP_flush_buffer([UDP_stop(w, w.udp.sock, garbage)
                         EXCEPT !.udp.sock = -1])

\* UDP::begin after 'int sock = socketGetFree()' (lines 2837-2855)
UDP_beginSocket(w, sock, port, sockOk) ==
    IF sock >= 0
    THEN LET w3 == hw_socketUdp(w, sock, port, FALSE, 0, sockOk)
         IN  IF sockOk
             THEN [w3 EXCEPT !.udp.sock = sock, !.udp.port = port,
                             !.udpCount[sock] = @ + 1, !.ret = 1]
             ELSE [w3 EXCEPT !.ret = 0]
    ELSE [w EXCEPT !.ret = 0]

\* UDP::begin(port) of the UDP object
UDP_beginPort(w, port, garbage, sockOk) ==
    LET w1 == UDP_stopSelf(w, garbage)
    IN  UDP_beginSocket(LogGetFree(w1), socketGetFree(w1), port, sockOk)

\* UDP::begin as a foreground thread runs it beside the maintenance thread:
\* up to 'int sock = socketGetFree()' (lines 2833-2836) ...
UDP_begin_getFree(w, garbage) ==
    LET w1 == UDP_stopSelf(w, garbage)
    IN  [LogGetFree(w1) EXCEPT !.pc.call = "UDP.begin",
                               !.pc.sock = socketGetFree(w1)]

\* ... and from there to the return (lines 2837-2855).
UDP_begin_socket(w, port, sockOk) ==
    UDP_beginSocket([w EXCEPT !.pc.call = "idle", !.pc.sock = -1],
                    w.pc.sock, port, sockOk)

\* UDP::beginPacket(IPAddress ip, port)
UDP_beginPacket(w, ip, port) ==
    LET w1 == IF w.udp.buffer = "NULL" /\ w.udp.buffer_size # 0
              THEN UDP_setBuffer(w, w.udp.buffer_size, "NULL") ELSE w
        w2 == UDP_flush_buffer([w1 EXCEPT !.udp.remoteIP = ip,
                                          !.udp.remotePort = port])
    IN  [w2 EXCEPT !.ret = w2.udp.buffer_size]

\* UDP::sendPacket(buffer, buffer_size, remoteIP, port); d is the content of
\* the buffer
UDP_sendPacket(w, d, remoteIP, port, ok) ==
    hw_sendto(w, w.udp.sock, d, remoteIP, port, ok)

\* UDP::endPacket; flush() does nothing.  The _offset bytes at _buffer are
\* sent; the memory past the end of the array is shown as 0.
UDP_endPacket(w, ok) ==
    UDP_sendPacket(w, [i \in 1 .. w.udp.offset |->
                          IF i <= Len(w.udp.data) THEN w.udp.data[i] ELSE 0],
                   w.udp.remoteIP, w.udp.remotePort, ok)

\* Mutant of UDP_write: the size is not limited to the room that is left.
UDP_write_noLimit(w, size, b) ==
    LET o == w.udp.offset
    IN  [w EXCEPT !.udp.data = [i \in 1 .. Max(Len(@), o + size) |->
                                   IF i > o /\ i <= o + size THEN b
                                   ELSE IF i <= Len(@) THEN @[i] ELSE 0],
                  !.udp.written = @ \o [i \in 1 .. size |-> b],
                  !.udp.offset = o + size,
                  !.ret = size]

\* UDP::write(buffer, size): size bytes of value b.  available is a size_t;
\* memcpy writes at _buffer + _offset, possibly past the end of the array
\* (the memory between the end of the array and the cursor is shown as 0).
UDP_write(w, size, b) ==
    LET o == w.udp.offset
        available == IF w.udp.buffer # "NULL"
                     THEN (w.udp.buffer_size - o) % (2 ^ SizeWidth) ELSE 0
        n == IF size > available THEN available ELSE size
    IN  [w EXCEPT !.udp.data = [i \in 1 .. Max(Len(@), o + n) |->
                                   IF i > o /\ i <= o + n THEN b
                                   ELSE IF i <= Len(@) THEN @[i] ELSE 0],
                  !.udp.written = @ \o [i \in 1 .. n |-> b],
                  !.udp.offset = o + n,
                  !.ret = n]

\* UDP::receivePacket(buffer, size, timeout).  hasBuffer: buffer is not NULL;
\* arrival: the datagram that arrives while the loop waits, if one does
\* (<<>>: none); g, rsr and addr: what the reads of an uninitialized status,
\* of a register of no socket and of the unwritten addr give.
UDP_receivePacket(w, hasBuffer, size, timeout, arrival, g, rsr, addr) ==
    LET sock == w.udp.sock
        take(v) ==
            LET sender == IF ValidSock(sock) /\ v.sr[sock] = "UDP" /\ size # 0
                          THEN Head(v.rxq[sock])
                          ELSE [ip |-> addr, port |-> v.udp.remotePort]
                v1 == hw_recvfrom(v, sock, size)
            IN  [v1 EXCEPT !.udp.remoteIP = sender.ip,
                           !.udp.remotePort = sender.port]
    IN  IF UDP_isOpen(w, sock, g) /\ hasBuffer
        THEN IF hw_rxPending(w, sock, rsr) THEN take(w)
             ELSE IF timeout # 0 /\ arrival # <<>> /\ ValidSock(sock)
             THEN take([w EXCEPT !.rxq[sock] = Append(@, arrival[1])])
             ELSE [w EXCEPT !.ret = 0]
        ELSE [w EXCEPT !.ret = -1]

\* UDP::available
UDP_available(w) == w.udp.total - w.udp.offset

\* UDP::parsePacket(timeout); the other arguments are those of receivePacket
UDP_parsePacket(w, timeout, arrival, g, rsr, addr) ==
    LET w1 == IF w.udp.buffer = "NULL" /\ w.udp.buffer_size # 0
              THEN UDP_setBuffer(w, w.udp.buffer_size, "NULL") ELSE w
        w2 == UDP_flush_buffer(w1)
        w3 == IF w2.udp.buffer # "NULL" /\ w2.udp.buffer_size # 0
              THEN LET r == UDP_receivePacket(w2, TRUE, w2.udp.buffer_size,
                                              timeout, arrival, g, rsr, addr)
                   IN  IF r.ret > 0 THEN [r EXCEPT !.udp.total = r.ret] ELSE r
              ELSE w2
    IN  [w3 EXCEPT !.ret = UDP_available(w3)]

\* _buffer[_offset]: the byte of the array, or, outside the array or with no
\* array, whatever the memory holds there (junk)
UDP_byteAt(w, junk) ==
    IF w.udp.buffer # "NULL" /\ w.udp.offset < Len(w.udp.data)
    THEN w.udp.data[w.udp.offset + 1] ELSE junk

\* UDP::read()
UDP_read(w, junk) ==
    IF UDP_available(w) # 0
    THEN [w EXCEPT !.ret = UDP_byteAt(w, junk), !.udp.offset = @ + 1]
    ELSE [w EXCEPT !.ret = -1]

\* UDP::peek()
UDP_peek(w, junk) ==
    IF UDP_available(w) # 0 THEN [w EXCEPT !.ret = UDP_byteAt(w, junk)]
    ELSE [w EXCEPT !.ret = -1]

\* UDP::joinMulticast(ip); g1, g2: the uninitialized status of isOpen(-1) in
\* joinMulticast and in its stop()
UDP_joinMulticast(w, ip, g1, g2, sockOk) ==
    IF ~UDP_isOpen(w, w.udp.sock, g1) THEN [w EXCEPT !.ret = -1]
    ELSE
        LET w1 == UDP_stopSelf(w, g2)
            sock == socketGetFree(w1)
            w2 == LogGetFree(w1)
        IN  IF sock >= 0
            THEN LET w3 == hw_socketUdp(w2, sock, w2.udp.port, TRUE, ip,
                                        sockOk)
                 IN  IF sockOk
                     THEN [w3 EXCEPT !.udp.sock = sock,
                                     !.udpCount[sock] = @ + 1, !.ret = 1]
                     ELSE [w3 EXCEPT !.ret = 0]
            ELSE [w2 EXCEPT !.ret = 0]

\* Mutant of UDP_leaveMulticast: the socket is stopped and not bound again.
UDP_leaveMulticast_noBegin(w, g1, g2, g3, sockOk) ==
    IF ~UDP_isOpen(w, w.udp.sock, g1) THEN [w EXCEPT !.ret = -1]
    ELSE [UDP_stopSelf(w, g2) EXCEPT !.ret = 1]

\* UDP::leaveMulticast(ip); g1, g2, g3: the uninitialized status of isOpen(-1)
\* in leaveMulticast, in its stop() and in the stop() of begin()
UDP_leaveMulticast(w, g1, g2, g3, sockOk) ==
    IF ~UDP_isOpen(w, w.udp.sock, g1) THEN [w EXCEPT !.ret = -1]
    ELSE LET w1 == UDP_stopSelf(w, g2)
         IN  UDP_beginPort(w1, w1.udp.port, g3, sockOk)

\* ------------------------------------------------------------ initial state

\* The objects as constructed: IsolatedEthernet with its default member
\* values, NumClients TCPClient(), one TCPServer (its _client and the shared
\* s_invalid_client), NumUdp UDP(); the chip after reset.
Init ==
    /\ hwLink = FALSE
    /\ sr = [s \in Slots |-> "CLOSED"]
    /\ rxq = [s \in Slots |-> <<>>]
    /\ peer = [s \in Slots |-> 0]
    /\ setupDone = FALSE /\ phyLink = FALSE /\ isReady = FALSE
    /\ dhcpState = "ATTEMPT" /\ ipAddr = 0 /\ dhcpBuffer = FALSE
    /\ dnsBuffer = "NULL"
    /\ DHCP_SOCKET = -1 /\ dhcpCallbacks = FALSE
    /\ d_ = [h \in Handles |-> h]
    /\ dsock = [d \in DataIds |-> -1]
    /\ doffset = [d \in DataIds |-> 0]
    /\ dtotal = [d \in DataIds |-> 0]
    /\ dbuffer = [d \in DataIds |-> EmptyBuffer]
    /\ dremoteIP = [d \in DataIds |-> 0]
    /\ srvSock = -1
    /\ udpCount = [s \in Slots |-> 0]
    /\ ret = 0 /\ ev = <<>> /\ ops = <<>>
    /\ recvLog = <<>> /\ readLog = <<>>
    /\ inProgressCount = 0 /\ linkEvents = 0
    /\ writeError = 0 /\ wr = NoWrite /\ txLog = <<>>
    /\ udp = NewUDP
    /\ snreg = [s \in Slots |-> NoReg]
    /\ udpSent = <<>>
    /\ subnetMaskArray = 0 /\ gatewayAddr = 0 /\ dnsAddr = 0
    /\ netInfo = [ip |-> 0, sn |-> 0, gw |-> 0, dns |-> 0, dhcp |-> FALSE]
    /\ pc = [thread |-> "idle", call |-> "idle", asked |-> FALSE,
             dhcpSocket |-> -1, sock |-> -1, dest |-> <<0, 0>>]

\* The world at the start of the call name on the object h: the call is the
\* first entry of ops.
Call(name, h) == Log(Cur, name, h, 0)

\* What an uninitialized status may hold: only read for the socket -1.
Garbage(sock) ==
    IF ValidSock(sock) THEN {"CLOSED"} ELSE {"CLOSED", "ESTABLISHED", "UDP"}

\* ------------------------------------------------------------ the network

\* The cable is plugged or unplugged.
LinkChange == Apply([Cur EXCEPT !.hwLink = ~@])

\* The cable is plugged.
LinkUp == ~hwLink /\ LinkChange

\* The link scenario: link up, (lease,) link down, link up.  The lease, its
\* second event, is noted by ip_assign.  The link changes only after a tick
\* has sampled its last change, so that the program sees every event.
ScenarioLinkUp ==
    /\ setupDone /\ ~hwLink /\ ~phyLink /\ linkEvents \in {0, 3}
    /\ Apply([Cur EXCEPT !.hwLink = TRUE, !.linkEvents = @ + 1])

ScenarioLinkDown ==
    /\ hwLink /\ phyLink /\ linkEvents = 2
    /\ Apply([Cur EXCEPT !.hwLink = FALSE, !.linkEvents = 3])

\* A peer connects to a listening socket.
PeerConnect(s) ==
    /\ sr[s] = "LISTEN"
    /\ Apply([Cur EXCEPT !.sr[s] = "ESTABLISHED"])

\* The peer of a connection sends its next byte.
PeerSend(s) ==
    /\ sr[s] = "ESTABLISHED"
    /\ peer[s] < StreamLen /\ Len(rxq[s]) < MaxRx
    /\ Apply([Cur EXCEPT !.rxq[s] = Append(@, peer[s] + 1),
                          !.peer[s] = @ + 1])

\* The peer of a connection closes its side.
PeerClose(s) ==
    /\ sr[s] = "ESTABLISHED"
    /\ Apply([Cur EXCEPT !.sr[s] = "CLOSE_WAIT"])

\* The chip closes a connection by itself (reset by the peer, timeout).
HwTimeout(s) ==
    /\ sr[s] \in {"ESTABLISHED", "CLOSE_WAIT"}
    /\ Apply([Cur EXCEPT !.sr[s] = "CLOSED", !.rxq[s] = <<>>,
                          !.peer[s] = 0])

\* ------------------------------------------------------------ the program

Setup == ~setupDone /\ Apply(setup(Call("setup", 0)))

\* One pass of threadFunction's loop.
Tick ==
    /\ setupDone
    /\ \E lease \in BOOLEAN, dnsDue \in BOOLEAN :
          Apply(stateMachine(Call("stateMachine", 0), lease, dnsDue))

\* One pass of threadFunction's loop in two steps: the switch of
\* stateMachine, then the case it selected.
ThreadSwitch ==
    /\ setupDone /\ pc.thread = "idle"
    /\ \E dnsDue \in BOOLEAN :
          Apply(stateMachine_switch(Call("stateMachine", 0), dnsDue))

ThreadCase ==
    /\ pc.thread # "idle"
    /\ \E lease \in BOOLEAN, dnsDue \in BOOLEAN :
          Apply(stateMachine_case(Call("stateMachine", 1), lease, dnsDue))

\* A foreground call of withStaticIP in two steps: its switch, then the
\* assignment of the branch.
CallSwitch ==
    pc.call = "idle" /\ Apply(withStaticIP_switch(Call("withStaticIP", 0)))

CallAssign ==
    pc.call # "idle" /\ Apply(withStaticIP_assign(Call("withStaticIP", 1)))

\* One pass of threadFunction's loop in two steps around the socketGetFree()
\* of case ATTEMPT.
ThreadGetFree ==
    /\ setupDone /\ pc.thread = "idle"
    /\ \E lease \in BOOLEAN, dnsDue \in BOOLEAN :
          Apply(stateMachine_getFree(Call("stateMachine", 0), lease, dnsDue))

ThreadInit ==
    /\ pc.thread = "ATTEMPT"
    /\ \E dnsDue \in BOOLEAN :
          Apply(stateMachine_init(Call("stateMachine", 1), dnsDue))

\* A foreground call of UDP::begin in two steps around its socketGetFree().
BeginGetFree ==
    /\ setupDone /\ pc.call = "idle"
    /\ \E g \in Garbage(udp.sock) :
          Apply(UDP_begin_getFree(Call("UDP.begin", 0), g))

BeginSocket ==
    /\ pc.call = "UDP.begin"
    /\ \E port \in Ports, sockOk \in BOOLEAN :
          Apply(UDP_begin_socket(Call("UDP.begin", port), port, sockOk))

WithIPAddress ==
    \E ip \in 0 .. 1 : Apply(withIPAddress(Call("withIPAddress", ip), ip))
WithStaticIP == Apply(withStaticIP(Call("withStaticIP", 0)))
WithDHCP == Apply(withDHCP(Call("withDHCP", 0)))
UpdateAddressSettings ==
    /\ setupDone
    /\ Apply(updateAddressSettings(Call("updateAddressSettings", 0)))

\* The keys loadJsonConfig understands, with the values of the model
JsonEntries == {<<"ipAddr", 0>>, <<"ipAddr", 1>>, <<"DHCP", 0>>, <<"DHCP", 1>>,
                <<"other", 1>>}
JsonObjects == UNION {[1 .. n -> JsonEntries] : n \in 0 .. MaxNetKeys}

\* Objects with the keys of all the address fields
JsonRecords ==
    UNION {[1 .. n -> {<<"ipAddr", 1>>, <<"subnetMask", 1>>,
                       <<"gatewayAddr", 1>>, <<"dnsAddr", 1>>, <<"DHCP", 0>>,
                       <<"DHCP", 1>>, <<"other", 1>>}] :
              n \in 0 .. MaxJsonKeys}

LoadJson(objs) ==
    \E cfg \in objs :
        Apply(loadJsonConfig(Call("loadJsonConfig", Len(cfg)), cfg))

LoadJsonConfig == LoadJson(JsonObjects)
LoadJsonRecord == LoadJson(JsonRecords)

ClientConnect(h) ==
    /\ setupDone
    /\ \E sockOk, connOk \in BOOLEAN :
          Apply(TCPClient_connect(Call("connect", h), h, sockOk, connOk))

ClientConnectHost(h) ==
    /\ setupDone
    /\ \E dnsOk, sockOk, connOk \in BOOLEAN :
          Apply(TCPClient_connectHost(Call("connectHost", h), h, dnsOk, sockOk,
                                     connOk))

ClientAvailable(h) ==
    /\ setupDone
    /\ \E g \in Garbage(dsock[d_[h]]) :
          Apply(TCPClient_available(Call("available", h), h, g))

ClientRead(h) ==
    /\ setupDone
    /\ \E g \in Garbage(dsock[d_[h]]) :
          Apply(TCPClient_read(Call("read", h), h, g))

ClientReadBuf(h) ==
    /\ setupDone
    /\ \E g \in Garbage(dsock[d_[h]]), size \in 1 .. MaxReadSize :
          Apply(TCPClient_readBuf(Call("readBuf", h), h, size, g))

ClientPeek(h) ==
    /\ setupDone
    /\ \E g \in Garbage(dsock[d_[h]]) :
          Apply(TCPClient_peek(Call("peek", h), h, g))

ClientFlushBuffer(h) ==
    setupDone /\ Apply(flush_buffer(Call("flush_buffer", h), h))

ClientConnected(h) ==
    /\ setupDone
    /\ \E g \in Garbage(dsock[d_[h]]) :
          Apply(TCPClient_connected(Call("connected", h), h, g))

ClientStop(h) == setupDone /\ Apply(TCPClient_stop(Call("stop", h), h))

\* dst = src: the implicit copy assignment of TCPClient, which copies the
\* shared_ptr d_.
ClientCopy(dst, src) ==
    /\ setupDone
    /\ d_[dst] # d_[src]
    /\ Apply(SetHandle(Call("copy", dst), dst, d_[src]))

\* The handle h goes out of scope and a TCPClient() is constructed in its
\* place: its reference is dropped, the new object has a Data of its own.
ClientDrop(h) ==
    /\ setupDone
    /\ LET w == Call("drop", h)
           d == FreshData(w)
       IN  Apply(SetHandle(NewDataAt(w, d, -1), h, d))

\* The application's thread is not inside write().
NotWriting == wr.pc # "loop"

\* client.write(buffer, size, timeout) is called.
ClientWrite(h) ==
    /\ setupDone /\ NotWriting
    /\ \E size \in 0 .. MaxWriteSize, timeout \in Timeouts :
          Apply(write_begin(Call("write", h), size, timeout))

\* The loop of write() makes one pass.
WriteLoop(h) ==
    /\ wr.pc = "loop"
    /\ \E a \in SendAnswers(Cur, dsock[d_[h]], wr.size - wr.offset),
          dt \in 1 .. 2 :
          Apply(write_iteration(Call("writeLoop", h), h, a, dt))

ServerBegin ==
    /\ setupDone
    /\ \E sockOk, listenOk \in BOOLEAN :
          Apply(TCPServer_begin(Call("serverBegin", 0), sockOk, listenOk))

\* server.available(), its result assigned to the TCPClient target or, for
\* target 0, dropped
ServerAvailable(target) ==
    /\ setupDone
    /\ \E sockOk, listenOk \in BOOLEAN, g \in {"CLOSED", "ESTABLISHED"} :
          Apply(TCPServer_available(Call("serverAvailable", target), target, g,
                                    sockOk, listenOk))

ServerStop == setupDone /\ Apply(TCPServer_stop(Call("serverStop", 0)))

\* begin() of a UDP object that is not bound
UdpBegin ==
    /\ setupDone
    /\ NumBound(Cur) < NumUdp
    /\ \E sockOk \in BOOLEAN, g \in Garbage(-1) :
          Apply(UDP_begin(Call("udpBegin", -1), -1, g, sockOk))

\* begin() of a UDP object that is bound to old
UdpBeginAgain ==
    /\ setupDone
    /\ \E old \in {s \in Slots : udpCount[s] > 0}, sockOk \in BOOLEAN :
          Apply(UDP_begin(Call("udpBegin", old), old, "CLOSED", sockOk))

\* stop() of a UDP object that is bound to old
UdpStop(old) ==
    /\ setupDone
    /\ udpCount[old] > 0
    /\ Apply(UDP_stop(Call("udpStop", old), old, "CLOSED"))

\* stop() of the UDP object bound to the highest slot
UdpStopLast ==
    \E old \in Slots :
        /\ \A s \in Slots : udpCount[s] > 0 => s <= old
        /\ UdpStop(old)

\* The calls of the UDP object.  The second entry of ops notes arguments.
UBegin ==
    /\ setupDone
    /\ \E port \in Ports, sockOk \in BOOLEAN, g \in Garbage(udp.sock) :
          Apply(UDP_beginPort(Call("UDP.begin", port), port, g, sockOk))

UStop ==
    /\ setupDone
    /\ \E g \in Garbage(udp.sock) :
          Apply(UDP_stopSelf(Call("UDP.stop", 0), g))

USetBuffer ==
    \E buf_size \in 0 .. MaxUdpBuf, buffer \in {"NULL", "USER"} :
        Apply(UDP_setBuffer(Call("UDP.setBuffer", buf_size), buf_size,
                            buffer))

UBeginPacket ==
    \E ip \in Groups, port \in Ports :
        Apply(UDP_beginPacket(Call("UDP.beginPacket", 0), ip, port))

UWrite ==
    \E size \in 0 .. MaxUdpWrite, b \in 1 .. 2 :
        Apply(UDP_write(Log(Call("UDP.write", 0), "arg", size, b), size, b))

UEndPacket ==
    /\ setupDone
    /\ \E ok \in BOOLEAN : Apply(UDP_endPacket(Call("UDP.endPacket", 0), ok))

UReceivePacket ==
    /\ setupDone
    /\ \E hasBuffer \in BOOLEAN, size \in 0 .. MaxDgram,
          timeout \in {0, SendTimeout}, g \in Garbage(udp.sock),
          rsr \in IF ValidSock(udp.sock) THEN {FALSE} ELSE BOOLEAN :
       \E addr \in IF ValidSock(udp.sock) /\ size # 0 THEN {0} ELSE {0, 1},
          arrival \in IF timeout # 0 /\ ValidSock(udp.sock)
                          /\ rxq[udp.sock] = <<>>
                       THEN {<<>>} \cup {<<dg>> : dg \in Datagrams}
                       ELSE {<<>>} :
          Apply(UDP_receivePacket(
                   Log(Call("UDP.receivePacket", IF hasBuffer THEN 1 ELSE 0),
                       "arg", size, timeout),
                   hasBuffer, size, timeout, arrival, g, rsr, addr))

UParsePacket ==
    /\ setupDone
    /\ \E timeout \in {0, SendTimeout}, g \in Garbage(udp.sock),
          rsr \in IF ValidSock(udp.sock) THEN {FALSE} ELSE BOOLEAN :
       \E addr \in IF ValidSock(udp.sock) THEN {0} ELSE {0, 1},
          arrival \in IF timeout # 0 /\ ValidSock(udp.sock)
                          /\ rxq[udp.sock] = <<>>
                       THEN {<<>>} \cup {<<dg>> : dg \in Datagrams}
                       ELSE {<<>>} :
          Apply(UDP_parsePacket(Call("UDP.parsePacket", timeout), timeout,
                                arrival, g, rsr, addr))

UAvailable ==
    LET w == Call("UDP.available", 0)
    IN  Apply([w EXCEPT !.ret = UDP_available(w)])

\* The bytes outside the array are 0 or 1.
URead ==
    /\ udp.offset < MaxUdpOffset
    /\ \E junk \in IF udp.buffer # "NULL" /\ udp.offset < Len(udp.data)
                    THEN {0} ELSE {0, 1} :
          Apply(UDP_read(Call("UDP.read", 0), junk))

UPeek ==
    \E junk \in IF udp.buffer # "NULL" /\ udp.offset < Len(udp.data)
                 THEN {0} ELSE {0, 1} :
        Apply(UDP_peek(Call("UDP.peek", 0), junk))

\* beginPacket(ip, port), with its arguments noted in pc.dest.
PacketBegin ==
    \E ip \in Groups, port \in Ports :
        Apply([UDP_beginPacket(Call("UDP.beginPacket", 0), ip, port)
                  EXCEPT !.pc.dest = <<ip, port>>])

\* sendPacket(buffer, len, ip, port) with a buffer of the caller
USendPacket ==
    /\ setupDone
    /\ \E len \in 0 .. MaxDgram, ip \in Groups, port \in Ports :
          Apply(UDP_sendPacket(Call("UDP.sendPacket", 0),
                               [i \in 1 .. len |-> 1], ip, port, TRUE))

UJoinMulticast ==
    /\ setupDone
    /\ \E ip \in Groups, sockOk \in BOOLEAN,
          g1 \in Garbage(udp.sock), g2 \in Garbage(udp.sock) :
          Apply(UDP_joinMulticast(Call("UDP.joinMulticast", ip), ip, g1, g2,
                                  sockOk))

ULeaveMulticast ==
    /\ setupDone
    /\ \E sockOk \in BOOLEAN, g1 \in Garbage(udp.sock),
          g2 \in Garbage(udp.sock), g3 \in Garbage(-1) :
          Apply(UDP_leaveMulticast(Call("UDP.leaveMulticast", 0), g1, g2, g3,
                                   sockOk))

\* A datagram for the UDP object arrives at its socket.
UdpArrive ==
    /\ ValidSock(udp.sock) /\ sr[udp.sock] = "UDP"
    /\ Len(rxq[udp.sock]) < MaxPending
    /\ \E dg \in Datagrams :
          Apply([Cur EXCEPT !.rxq[udp.sock] = Append(@, dg)])

Resolve ==
    /\ setupDone
    /\ \E dnsOk \in BOOLEAN :
          Apply(inet_gethostbyname(Call("resolve", 0), dnsOk))

\* ------------------------------------------------------------ specifications

\* The application holds no TCP socket.
NoTcpSocket == dsock[d_[1]] = -1 /\ srvSock = -1

\* The socket pool and its users with DHCP: the maintenance thread, name
\* resolution, a TCPClient, the listener of a TCPServer, and UDP objects,
\* which the application begins before and stops after its TCP sockets.
Next ==
    \/ Setup
    \/ LinkUp
    \/ Tick
    \/ NoTcpSocket /\ UdpBegin
    \/ NoTcpSocket /\ UdpStopLast
    \/ Resolve
    \/ ClientConnect(1)
    \/ ClientStop(1)
    \/ ServerBegin
    \/ ServerStop

Spec == Init /\ [][Next]_vars

\* An application with a static address: withIPAddress before setup().
ConfigStatic == ~setupDone /\ WithIPAddress
SetupStatic == dhcpState = "NOT_USED" /\ Setup

\* One TCPClient (handle 1) reading a connection, the link and the
\* maintenance thread; no flush_buffer.
NextStream ==
    \/ ConfigStatic
    \/ SetupStatic
    \/ LinkChange
    \/ Tick
    \/ \E s \in Slots : PeerSend(s)
    \/ \E s \in Slots : PeerClose(s)
    \/ \E s \in Slots : HwTimeout(s)
    \/ ClientConnect(1)
    \/ ClientAvailable(1)
    \/ ClientRead(1)
    \/ ClientReadBuf(1)
    \/ ClientPeek(1)
    \/ ClientConnected(1)
    \/ ClientStop(1)

SpecStream == Init /\ [][NextStream]_vars

\* A TCPServer of an application with a static address that accepts
\* connections, drops the client or keeps it in its TCPClient 1.
NextOwn ==
    \/ ConfigStatic
    \/ SetupStatic
    \/ LinkUp
    \/ Tick
    \/ \E s \in Slots : PeerConnect(s)
    \/ ServerBegin
    \/ ServerAvailable(0)
    \/ ServerAvailable(1)
    \/ ServerStop
    \/ ClientStop(1)

SpecOwn == Init /\ [][NextOwn]_vars

\* The same with flush_buffer.
NextBuf == NextStream \/ ClientFlushBuffer(1)

SpecBuf == Init /\ [][NextBuf]_vars

\* The address configuration, the link and the maintenance thread.
NextNet ==
    \/ Setup
    \/ WithIPAddress
    \/ WithStaticIP
    \/ WithDHCP
    \/ LoadJsonConfig
    \/ UpdateAddressSettings
    \/ LinkChange
    \/ Tick

SpecNet == Init /\ [][NextNet]_vars

\* Configuration records applied at any time, the link and the maintenance
\* thread.
NextJson ==
    \/ Setup
    \/ LoadJsonRecord
    \/ LinkUp
    \/ Tick

SpecJson == Init /\ [][NextJson]_vars

\* The maintenance thread and a foreground thread that calls withStaticIP
\* at any time, both preemptible between their steps, and the link.
NextRace ==
    \/ Setup
    \/ LinkChange
    \/ ThreadSwitch
    \/ ThreadCase
    \/ CallSwitch
    \/ CallAssign

SpecRace == Init /\ [][NextRace]_vars

\* The maintenance thread and a foreground thread that binds and stops a
\* UDP object at any time, both preemptible between socketGetFree() and the
\* use of its result, and the link.
NextAlloc ==
    \/ Setup
    \/ LinkChange
    \/ ThreadGetFree
    \/ ThreadInit
    \/ BeginGetFree
    \/ BeginSocket
    \/ UStop /\ pc.call = "idle"

SpecAlloc == Init /\ [][NextAlloc]_vars

\* DHCP beside an application that binds and stops UDP objects while DHCP
\* holds no socket and asks for DHCP again when it is DONE, with the link
\* going up and down.
NextAttempt ==
    \/ Setup
    \/ LinkChange
    \/ Tick
    \/ dhcpState \in {"ATTEMPT", "DONE"} /\ UdpBegin
    \/ dhcpState \in {"ATTEMPT", "DONE"} /\ UdpStopLast
    \/ dhcpState = "DONE" /\ WithDHCP

SpecAttempt == Init /\ [][NextAttempt]_vars

\* A TCPServer of an application with a static address, to which no peer
\* connects, whose loop assigns the result of available() to its TCPClient 1
\* and uses that client: connect, available, read, stop.
NextSentinel ==
    \/ ConfigStatic
    \/ SetupStatic
    \/ LinkUp
    \/ Tick
    \/ ServerAvailable(1)
    \/ ClientConnect(1)
    \/ ClientAvailable(1)
    \/ ClientRead(1)
    \/ ClientStop(1)

SpecSentinel == Init /\ [][NextSentinel]_vars

\* The link scenario with DHCP, the maintenance thread running for ever
\* (the loop of threadFunction), and an application with one TCPClient.
NextLive ==
    \/ Setup
    \/ ScenarioLinkUp
    \/ ScenarioLinkDown
    \/ Tick
    \/ Resolve
    \/ ClientConnect(1)
    \/ ClientStop(1)

SpecLive == Init /\ [][NextLive]_vars /\ WF_vars(Tick)

\* Two TCPClient objects of an application with a static address: one
\* connects, the other is assigned from it and reads; either is stopped,
\* dropped or asked whether it is connected.
NextCopy ==
    \/ ConfigStatic
    \/ SetupStatic
    \/ LinkUp
    \/ Tick
    \/ \E s \in Slots : PeerSend(s)
    \/ \E s \in Slots : PeerClose(s)
    \/ ClientConnect(1)
    \/ ClientCopy(2, 1)
    \/ ClientAvailable(2)
    \/ \E h \in UserHandles : ClientConnected(h)
    \/ \E h \in UserHandles : ClientStop(h)
    \/ \E h \in UserHandles : ClientDrop(h)

SpecCopy == Init /\ [][NextCopy]_vars

\* One TCPClient of an application with a static address that connects by
\* address or by host name, over and over, with the pool filled by UDP
\* objects, the link changing, the peer sending and closing.
NextConn ==
    \/ ConfigStatic
    \/ SetupStatic
    \/ LinkChange
    \/ Tick
    \/ NoTcpSocket /\ UdpBegin
    \/ NoTcpSocket /\ UdpStopLast
    \/ \E s \in Slots : PeerSend(s)
    \/ \E s \in Slots : PeerClose(s)
    \/ \E s \in Slots : HwTimeout(s)
    \/ ClientConnect(1)
    \/ ClientConnectHost(1)
    \/ ClientAvailable(1)
    \/ ClientStop(1)

SpecConn == Init /\ [][NextConn]_vars

\* One TCPClient of an application with a static address that writes to
\* its connection; the peer or the chip may close it meanwhile.
NextWrite ==
    \/ ConfigStatic
    \/ SetupStatic
    \/ LinkUp
    \/ Tick
    \/ \E s \in Slots : PeerClose(s)
    \/ \E s \in Slots : HwTimeout(s)
    \/ NotWriting /\ ClientConnect(1)
    \/ NotWriting /\ ClientStop(1)
    \/ ClientWrite(1)
    \/ WriteLoop(1)

SpecWrite == Init /\ [][NextWrite]_vars

\* The UDP object sending through its buffer.
NextUdpTx ==
    \/ Setup
    \/ UBegin
    \/ UStop
    \/ USetBuffer
    \/ UBeginPacket
    \/ UWrite
    \/ UEndPacket

SpecUdpTx == Init /\ [][NextUdpTx]_vars

\* The UDP object receiving datagrams.
NextUdpRx ==
    \/ Setup
    \/ UBegin
    \/ UStop
    \/ UdpArrive
    \/ UReceivePacket

SpecUdpRx == Init /\ [][NextUdpRx]_vars

\* The UDP object sending with its buffer and receiving with parsePacket,
\* available, read and peek; begin() is called on an unbound object and
\* write() with the cursor inside the array.
NextUdpRead ==
    \/ Setup
    \/ udp.sock = -1 /\ UBegin
    \/ UStop
    \/ UdpArrive
    \/ UBeginPacket
    \/ udp.offset <= udp.buffer_size /\ UWrite
    \/ UEndPacket
    \/ UParsePacket
    \/ UAvailable
    \/ URead
    \/ UPeek

SpecUdpRead == Init /\ [][NextUdpRead]_vars

\* The UDP object, once bound, sending through its buffer (one beginPacket()
\* and one write() for its datagram) while the application also sends and receives with buffers of
\* its own; a datagram arrives while receivePacket() waits for one.
NextUdpMix ==
    \/ Setup
    \/ udp.sock = -1 /\ UBegin
    \/ ValidSock(udp.sock) /\ pc.dest = <<0, 0>> /\ PacketBegin
    \/ ValidSock(udp.sock) /\ udp.offset = 0 /\ UWrite
    \/ ValidSock(udp.sock) /\ USendPacket
    \/ ValidSock(udp.sock) /\ UReceivePacket
    \/ ValidSock(udp.sock) /\ UEndPacket

SpecUdpMix == Init /\ [][NextUdpMix]_vars

\* One TCPClient and the TCPServer of an application with a static address,
\* used while the link comes and goes; a peer sends up to MaxRx bytes.
NextNotReady ==
    \/ ConfigStatic
    \/ SetupStatic
    \/ LinkChange
    \/ Tick
    \/ \E s \in Slots : peer[s] < MaxRx /\ PeerSend(s)
    \/ ClientConnect(1)
    \/ ClientConnectHost(1)
    \/ ClientAvailable(1)
    \/ ClientRead(1)
    \/ ServerBegin

SpecNotReady == Init /\ [][NextNotReady]_vars

\* The UDP object joining and leaving multicast groups, with the other UDP
\* objects of the application filling the pool while it is not bound.
NextMulti ==
    \/ Setup
    \/ UBegin
    \/ UStop
    \/ UJoinMulticast
    \/ ULeaveMulticast
    \/ udp.sock = -1 /\ UdpBegin
    \/ udp.sock = -1 /\ UdpStopLast

SpecMulti == Init /\ [][NextMulti]_vars

\* ------------------------------------------------------------ properties

Stream(n) == [i \in 1 .. n |-> i]

\* The unread bytes of the buffer of handle h
Unread(h) ==
    [i \in 1 .. (dtotal[d_[h]] - doffset[d_[h]]) |->
        dbuffer[d_[h]][doffset[d_[h]] + i - 1]]

\* The last call was name on h.
LastCall(name, h) == ops # <<>> /\ ops[1][1] = name /\ ops[1][2] = h

\* No entry name in a log of hardware calls
NoOp(o, name) == \A i \in DOMAIN o : o[i][1] # name

\* C7: read(), read(buffer, size) and peek() on a connection return the bytes
\* wiznet::recv delivered, in order, none lost, repeated or changed: the bytes
\* read so far followed by the unread bytes of the buffer are the bytes
\* received, those followed by the bytes still in the chip are what the peer
\* sent, whatever the number of refills of the buffer.
C7_StreamIntact ==
    LET s == dsock[d_[1]]
    IN  s >= 0 =>
          /\ readLog \o Unread(1) = recvLog
          /\ \E n \in 0 .. StreamLen : recvLog = Stream(n)
          /\ sr[s] \in {"ESTABLISHED", "CLOSE_WAIT"}
                => recvLog \o rxq[s] = Stream(peer[s])

\* C7 witness: the whole stream, longer than the buffer, has been read.
C7_Witness ==
    /\ dsock[d_[1]] >= 0
    /\ StreamLen > TCPCLIENT_BUF_MAX_SIZE
    /\ readLog = Stream(StreamLen)
    /\ LastCall("read", 1) \/ LastCall("readBuf", 1)

\* C8: offset <= total <= capacity for every connection state.
C8_BufferBounds ==
    \A d \in DataIds :
        /\ 0 <= doffset[d]
        /\ doffset[d] <= dtotal[d]
        /\ dtotal[d] <= TCPCLIENT_BUF_MAX_SIZE

\* C8 witness: a full buffer, partly read, after a refill.
C8_Witness ==
    /\ dtotal[d_[1]] = TCPCLIENT_BUF_MAX_SIZE
    /\ doffset[d_[1]] > 0 /\ doffset[d_[1]] < dtotal[d_[1]]
    /\ Len(recvLog) > TCPCLIENT_BUF_MAX_SIZE

\* What makes available() call wiznet::recv: the network is ready, the
\* socket is established and, once a drained buffer has been emptied, the
\* buffer has room.
RecvAttempted(h) ==
    LET d == d_[h]
        tot == IF dtotal[d] # 0 /\ doffset[d] = dtotal[d] THEN 0
               ELSE dtotal[d]
    IN  /\ isReady
        /\ isOpen(Cur, dsock[d], "CLOSED")
        /\ tot < TCPCLIENT_BUF_MAX_SIZE

\* C9 as claimed: available() with unread bytes in the buffer returns
\* total - offset and reads nothing from the hardware.
C9_NoRefillUnlessDrained ==
    [][(ClientAvailable(1) /\ doffset[d_[1]] < dtotal[d_[1]])
        => /\ NoOp(ops', "recv")
           /\ ret' = dtotal[d_[1]] - doffset[d_[1]]]_vars

\* C9 as amended: available() returns total - offset as they are after the
\* call; on a handle with a socket it calls wiznet::recv exactly when the
\* network is ready, the socket established and the buffer not full, also
\* while unread bytes remain; with unread bytes and nothing pending in the
\* chip (or no read) the count and the buffer are as before the call.
C9_RefillWhileRoom ==
    [][ClientAvailable(1) =>
        LET d == d_[1]
            s == dsock[d]
        IN  /\ ret' = dtotal'[d] - doffset'[d]
            /\ s >= 0 => (~NoOp(ops', "recv") <=> RecvAttempted(1))
            /\ (doffset[d] < dtotal[d] /\ s >= 0
                    /\ (rxq[s] = <<>> \/ ~RecvAttempted(1)))
                => /\ ret' = dtotal[d] - doffset[d]
                   /\ doffset'[d] = doffset[d] /\ dtotal'[d] = dtotal[d]
                   /\ dbuffer'[d] = dbuffer[d]]_vars

\* C9 witness: available() has read from the chip while unread bytes were
\* in the buffer.
C9_Witness ==
    /\ LastCall("available", 1)
    /\ \E i \in DOMAIN ops :
          /\ ops[i][1] = "recv" /\ ops[i][3] > 0
          /\ dtotal[d_[1]] - doffset[d_[1]] > ops[i][3]

Fired(e, name) == Cardinality({i \in DOMAIN e : e[i] = name})

\* The last call has failed to allocate.
AllocFailed ==
    LET call == ops[1][1]
        h == ops[1][2]
    IN  CASE call \in {"connect", "connectHost"} ->
                ret = 0 /\ dsock[d_[h]] = -1
          [] call = "serverBegin" -> ret = 0 /\ srvSock = -1
          [] call = "serverAvailable" ->
                srvSock = -1 \/ sr[srvSock] # "LISTEN"
          [] call = "udpBegin" -> ret = 0
          [] call = "resolve" -> ret = -1
          [] call = "stateMachine" -> dhcpState = "DONE"
          [] OTHER -> FALSE

\* C1: a hardware slot is closed or in use, so that at most 8 are in use;
\* socketGetFree() returns -1 exactly when all 8 slots are non-closed, and
\* then the operation that called it (connect, startListener, UDP::begin,
\* the start of DHCP, inet_gethostbyname) opens no socket and fails; it
\* returns a slot only when one is closed, and that slot is the one opened.
C1_PoolExhaustion ==
    /\ \A s \in Slots : sr[s] \in Status
    /\ \A i \in DOMAIN ops :
          ops[i][1] = "socketGetFree" =>
            LET res == ops[i][2]
                closed == ops[i][3]
            IN  /\ res \in Slots \cup {-1}
                /\ closed = 0 <=> res = -1
                /\ res = -1 =>
                      /\ AllocFailed
                      /\ \A j \in DOMAIN ops :
                            j > i => ops[j][1] \notin
                                       {"socket", "DHCP_init", "DNS_init",
                                        "listen", "connect"}
                /\ res >= 0 =>
                      /\ i < Len(ops)
                      /\ ops[i + 1][1] \in {"socket", "DHCP_init", "DNS_init"}
                      /\ ops[i + 1][2] = res

\* C1 witness: an allocation has failed with all 8 slots in use.
C1_Witness ==
    /\ \E i \in DOMAIN ops : ops[i] = <<"socketGetFree", -1, 0>>
    /\ \A s \in Slots : sr[s] # "CLOSED"

\* The owners of the slot s: connection states of TCPClient, the listening
\* socket of the TCPServer, UDP objects, and DHCP from DHCP_init to
\* DHCP_stop.
OwnerCount(s) ==
    Cardinality({d \in Referenced(Cur) : dsock[d] = s})
    + (IF srvSock = s THEN 1 ELSE 0)
    + udpCount[s]
    + (IF DHCP_SOCKET = s /\ dhcpState \in {"IN_PROGRESS", "GOT_ADDRESS",
                                             "CLEANUP", "CLEANUP_DISABLE"}
       THEN 1 ELSE 0)

\* C2 as claimed: no two owners reference the same non-closed slot.
C2_SingleOwner ==
    \A s \in Slots : sr[s] # "CLOSED" => OwnerCount(s) <= 1

\* C3 as claimed: after link up, a lease, link down and link up again, each
\* sampled by a tick, with the tick running fairly and free slots, the
\* machine enters IN_PROGRESS a second time.
C3_SecondInProgress == (linkEvents = 4) ~> (inProgressCount >= 2)

\* C4 as claimed: ready() is true exactly when the PHY link is up and the
\* configured address is not 0.0.0.0.  It is stated for the states at the
\* end of a maintenance tick, where the program's sample of the link is the
\* link of the chip.
C4_ReadyIffLinkAndIp ==
    LastCall("stateMachine", 0) =>
        /\ phyLink = hwLink
        /\ isReady <=> (phyLink /\ ipAddr # 0)

\* C5 as claimed: every lease is followed by the tick that fires
\* gotIpAddress: the lease callback leaves the machine in GOT_ADDRESS, and
\* GOT_ADDRESS is left only by the tick that fires gotIpAddress once and
\* moves to CLEANUP.
C5_OncePerLease ==
    [][/\ ~NoOp(ops', "ip_assign") => dhcpState' = "GOT_ADDRESS"
       /\ dhcpState = "GOT_ADDRESS" =>
             \/ dhcpState' = "GOT_ADDRESS"
             \/ Fired(ev', "gotIpAddress") = 1 /\ dhcpState' = "CLEANUP"]_vars

\* C5 as amended: the lease callback fires no gotIpAddress; the tick that
\* finds GOT_ADDRESS fires it exactly once and moves to CLEANUP; GOT_ADDRESS
\* is entered only by the lease callback, so that a lease fires at most one
\* gotIpAddress.  A lease whose callback runs in a tick that has seen the
\* link down goes to CLEANUP at once, and no call other than a tick fires.
C5_AtMostOncePerLease ==
    [][/\ ~NoOp(ops', "ip_assign") =>
             /\ Fired(ev', "gotIpAddress") = 0
             /\ dhcpState' = IF phyLink' THEN "GOT_ADDRESS" ELSE "CLEANUP"
       /\ (Tick /\ dhcpState = "GOT_ADDRESS") =>
             /\ Fired(ev', "gotIpAddress") = 1
             /\ dhcpState' = "CLEANUP"
       /\ (dhcpState # "GOT_ADDRESS" /\ dhcpState' = "GOT_ADDRESS") =>
             ~NoOp(ops', "ip_assign")
       /\ Fired(ev', "gotIpAddress") > 0 => Tick]_vars

\* C5 witness: the tick after a lease has fired gotIpAddress and moved to
\* CLEANUP.
C5_Witness ==
    /\ LastCall("stateMachine", 0)
    /\ ev = <<"gotIpAddress">>
    /\ dhcpState = "CLEANUP" /\ ipAddr = 2 /\ isReady

\* C6: a tick that finds the link up after it was down fires linkUp first
\* and then, exactly when the state is NOT_USED and the address not
\* 0.0.0.0, sets ready and fires gotIpAddress; in every other state the
\* edge fires nothing else; a tick that finds the link down after it was up
\* fires linkDown first and ready is false when it ends, whatever the
\* state; a tick that finds no edge fires neither.
C6_LinkEdges ==
    [][Tick =>
        /\ (hwLink /\ ~phyLink) =>
              /\ phyLink'
              /\ IF dhcpState = "NOT_USED" /\ ipAddr # 0
                 THEN ev' = <<"linkUp", "gotIpAddress">> /\ isReady'
                 ELSE ev' = <<"linkUp">> /\ isReady' = isReady
        /\ (~hwLink /\ phyLink) =>
              /\ ~phyLink'
              /\ ev' # <<>> /\ ev'[1] = "linkDown"
              /\ Fired(ev', "linkDown") = 1 /\ Fired(ev', "linkUp") = 0
              /\ ~isReady'
        /\ (hwLink = phyLink) =>
              Fired(ev', "linkUp") = 0 /\ Fired(ev', "linkDown") = 0]_vars

\* C6 witness: a tick has found the link up with a static address, and
\* the application is ready.
C6_Witness ==
    /\ LastCall("stateMachine", 0)
    /\ ev = <<"linkUp", "gotIpAddress">>
    /\ dhcpState = "NOT_USED" /\ ipAddr # 0 /\ isReady /\ phyLink

\* C11 as claimed: connected() on a handle that holds a slot, while the chip
\* reports the connection closed (CLOSE_WAIT or CLOSED), the buffer is empty
\* and nothing is pending in the chip, returns false and tears the
\* connection down: the handle holds no slot, its remote address and buffer
\* are cleared and the slot is closed.
C11_ClosedTearsDown ==
    [][(/\ ClientConnected(1)
        /\ dsock[d_[1]] >= 0
        /\ sr[dsock[d_[1]]] \in {"CLOSE_WAIT", "CLOSED"}
        /\ doffset[d_[1]] = dtotal[d_[1]]
        /\ rxq[dsock[d_[1]]] = <<>>)
        => /\ ret' = 0
           /\ dsock'[d_[1]] = -1 /\ dremoteIP'[d_[1]] = 0
           /\ dtotal'[d_[1]] = 0 /\ doffset'[d_[1]] = 0
           /\ sr'[dsock[d_[1]]] = "CLOSED"]_vars

\* C12: TCPClient::stop() is idempotent.  On a handle holding a slot it
\* makes one hardware call, the disconnect of that slot, which leaves the
\* slot closed (back in the pool) and no other slot changed; the handle has
\* sock = -1, no remote address and an empty buffer.  On a handle holding no
\* slot it changes nothing and makes no hardware call.  A stop() after a
\* stop() is of the second kind: the state after stop() is a fixed point.
C12_StopIdempotent ==
    [][ClientStop(1) =>
        LET d == d_[1]
            s == dsock[d]
        IN  /\ IF s >= 0
               THEN /\ Len(ops') = 2
                    /\ ops'[2][1] = "disconnect" /\ ops'[2][2] = s
                    /\ sr'[s] = "CLOSED" /\ rxq'[s] = <<>>
                    /\ \A t \in Slots \ {s} : sr'[t] = sr[t]
                    /\ dsock'[d] = -1 /\ dremoteIP'[d] = 0
                    /\ doffset'[d] = 0 /\ dtotal'[d] = 0
               ELSE /\ Len(ops') = 1
                    /\ Cur' = Cur
            /\ TCPClient_stop(Cur', 1) = Cur']_vars

\* C12 witness: stop() has disconnected an open connection and discarded
\* bytes that were received and not read.
C12_Witness ==
    /\ LastCall("stop", 1)
    /\ Len(ops) = 2 /\ ops[2][1] = "disconnect" /\ ops[2][3] = 0
    /\ Len(recvLog) > Len(readLog)
    /\ dsock[d_[1]] = -1 /\ dtotal[d_[1]] = 0

\* The handles that share the connection state of handle h
Copies(h) == {g \in UserHandles : d_[g] = d_[h]}

\* C13 as claimed: copies of a TCPClient alias one connection state.
\* Dropping a copy while another copy references the state makes no
\* hardware call and changes no slot; dropping the last copy of a state
\* with a slot closes that slot, once; stop() on any copy disconnects the
\* slot once and leaves every copy without a slot; and after a stop() that
\* has disconnected, every other copy reports no connection: connected() on
\* it returns 0.
C13_CopiesShareTeardown ==
    [][\A h \in UserHandles :
        LET d == d_[h]
            s == dsock[d]
        IN  /\ (ClientDrop(h) /\ Copies(h) # {h}) =>
                  /\ Len(ops') = 1 /\ sr' = sr
                  /\ \A g \in Copies(h) \ {h} :
                        d_'[g] = d /\ dsock'[d] = s
                                   /\ dtotal'[d] = dtotal[d]
            /\ (ClientDrop(h) /\ Copies(h) = {h} /\ s >= 0) =>
                  /\ Len(ops') = 2 /\ ops'[2][1] = "close" /\ ops'[2][2] = s
                  /\ sr'[s] = "CLOSED"
            /\ (ClientDrop(h) /\ Copies(h) = {h} /\ s < 0) =>
                  Len(ops') = 1 /\ sr' = sr
            /\ (ClientStop(h) /\ s >= 0) =>
                  /\ Len(ops') = 2
                  /\ ops'[2][1] = "disconnect" /\ ops'[2][2] = s
                  /\ sr'[s] = "CLOSED"
                  /\ \A g \in Copies(h) :
                        d_'[g] = d /\ dsock'[d_'[g]] = -1
                                   /\ dtotal'[d_'[g]] = 0
            /\ (/\ ClientConnected(h)
                /\ \E g \in Copies(h) \ {h} :
                      LastCall("stop", g) /\ Len(ops) = 2) => ret' = 0]_vars

\* The number of entries name in a log of hardware calls
CountOp(o, name) == Cardinality({i \in DOMAIN o : o[i][1] = name})

\* C14: connect (by address or by host name) first stops the connection the
\* handle holds: its first hardware call is the disconnect of that slot.
\* It returns 1 exactly when wiznet::connect has succeeded, and then the
\* handle holds an established slot and an empty buffer.  Whenever it
\* returns 0 the handle is stopped (sock = -1, no remote address, empty
\* buffer), every slot is as it was before the call or closed, so that none
\* is left allocated, and a connect that follows at once succeeds whenever
\* the network is ready, a slot is closed and the hardware accepts.
C14_FailedConnectLeavesStopped ==
    [][(ClientConnect(1) \/ ClientConnectHost(1)) =>
        LET d == d_[1]
            s == dsock[d]
        IN  /\ s >= 0 => /\ Len(ops') >= 2
                         /\ ops'[2][1] = "disconnect" /\ ops'[2][2] = s
            /\ ret' \in {0, 1}
            /\ ret' = 1 <=> \E i \in 2 .. Len(ops') :
                               ops'[i][1] = "connect" /\ ops'[i][3] = 0
            /\ ret' = 1 =>
                  /\ dsock'[d] \in Slots
                  /\ sr'[dsock'[d]] = "ESTABLISHED"
                  /\ doffset'[d] = 0 /\ dtotal'[d] = 0
            /\ ret' = 0 =>
                  /\ dsock'[d] = -1 /\ dremoteIP'[d] = 0
                  /\ doffset'[d] = 0 /\ dtotal'[d] = 0
                  /\ \A t \in Slots : sr'[t] = sr[t] \/ sr'[t] = "CLOSED"
                  /\ TCPClient_connect(Cur', 1, TRUE, TRUE).ret = 1
                        <=> (isReady' /\ \E t \in Slots : sr'[t] = "CLOSED")
            /\ CountOp(ops', "socket") <= 2]_vars

\* C14 witness: a connect on a handle that held a connection was refused by
\* the peer: the old connection was stopped, the new slot released, and the
\* handle is stopped.
C14_Witness ==
    /\ LastCall("connect", 1) /\ ret = 0
    /\ Len(ops) >= 2 /\ ops[2][1] = "disconnect" /\ ops[2][3] = 0
    /\ \E i \in 3 .. Len(ops) : ops[i][1] = "connect" /\ ops[i][3] = -1
                                   /\ sr[ops[i][2]] = "CLOSED"
    /\ dsock[d_[1]] = -1 /\ dtotal[d_[1]] = 0

\* C15 as claimed: a write() with timeout 0, or with the wait-forever value
\* that TCPServer::write(buffer, size) passes, returns only when all size
\* bytes have been handed to the chip or a send has failed with a result
\* other than busy.
C15_ZeroWaitsForever ==
    (wr.pc = "done" /\ wr.timeout \in {0, SOCKET_WAIT_FOREVER})
        => (wr.offset = wr.size \/ writeError # 0)

\* C16 as claimed: when write() has returned, the value it returned as the
\* byte count is at most size, and a negative result of the send is in the
\* write error, not in the count.
C16_NoErrorAsCount ==
    (LastCall("writeLoop", 1) /\ wr.pc = "done")
        => /\ ret <= wr.size
           /\ wr.ret < 0 => writeError = wr.ret

\* The bytes accepted in the first n chunks
RECURSIVE Accepted(_, _)
Accepted(chunks, n) ==
    IF n = 0 THEN 0 ELSE chunks[n][2] + Accepted(chunks, n - 1)

\* C17: the bytes handed to the chip by write() are buffer[0 .. offset), once
\* each and in order; every chunk starts at the count accepted before it and
\* is at most the send buffer; and a write() whose sends were accepted or
\* busy and whose timeout has not expired returns size with all size bytes
\* handed over, also for a size above the send buffer.
C17_ChunksInOrder ==
    /\ txLog = Stream(wr.offset)
    /\ wr.offset <= wr.size
    /\ \A i \in DOMAIN wr.chunks :
          /\ wr.chunks[i][1] = Accepted(wr.chunks, i - 1)
          /\ wr.chunks[i][2] \in 1 .. TX_BUF
    /\ wr.offset = Accepted(wr.chunks, Len(wr.chunks))
    /\ (/\ LastCall("writeLoop", 1) /\ wr.pc = "done"
        /\ writeError = 0
        /\ wr.timeout # 0 /\ wr.elapsed < wr.timeout)
          => /\ ret = wr.size
             /\ wr.offset = wr.size
             /\ txLog = Stream(wr.size)

\* C17 witness: a write() of more bytes than the send buffer holds has
\* returned size after several chunks, the last one not at offset 0.
C17_Witness ==
    /\ LastCall("writeLoop", 1) /\ wr.pc = "done"
    /\ wr.size > TX_BUF /\ ret = wr.size
    /\ Len(wr.chunks) >= 2
    /\ wr.elapsed > 0
    /\ txLog = Stream(wr.size)

\* The listening slot of the server holds an established connection that
\* no TCPClient state refers to yet: a connection available() has not
\* returned.
NewConnection ==
    /\ srvSock >= 0 /\ sr[srvSock] = "ESTABLISHED"
    /\ \A d \in Referenced(Cur) : dsock[d] # srvSock

\* C18 as claimed: a call of TCPServer::available() on a server that holds a
\* slot returns a handle with a slot exactly when a connection has been
\* established that it has not returned before, and that handle is for the
\* slot of this connection; every other call returns an empty handle.
C18_AcceptOnce ==
    [][\A t \in {0, 1} :
        (ServerAvailable(t) /\ srvSock >= 0) =>
            /\ ret' >= 0 <=> NewConnection
            /\ ret' >= 0 => ret' = srvSock]_vars

\* C19 as claimed: when TCPServer::available() returns a handle with a slot,
\* the server's _sock is on return another slot, in the state LISTEN; and
\* in every state _sock differs from the slot of every TCPClient state.
C19_ListenerMoves ==
    [][/\ \A t \in {0, 1} :
            (ServerAvailable(t) /\ ret' >= 0) =>
                /\ srvSock' \in Slots \ {ret'}
                /\ sr'[srvSock'] = "LISTEN"
       /\ \A d \in Referenced(Cur') :
            dsock'[d] >= 0 => dsock'[d] # srvSock']_vars

\* C20 as claimed: TCPServer::begin() on a server whose _sock is a
\* listening slot returns true, makes no hardware call and changes neither
\* _sock, nor any slot, nor the connection state of the client accepted
\* last; on a server without a slot it allocates exactly when the network
\* is ready.
C20_BeginKeepsListener ==
    [][ServerBegin =>
        /\ (srvSock >= 0 /\ sr[srvSock] = "LISTEN") =>
              /\ ret' = 1 /\ Len(ops') = 1
              /\ srvSock' = srvSock /\ sr' = sr
              /\ dsock' = dsock /\ dtotal' = dtotal /\ dremoteIP' = dremoteIP
        /\ srvSock < 0 =>
              (~NoOp(ops', "socketGetFree") <=> isReady)]_vars

\* C21 as claimed: TCPServer::stop() leaves the server without a listening
\* slot and the client accepted last without a slot, and a connection
\* accepted earlier that the caller has kept in a TCPClient (a connection
\* state other than the one of _client) keeps its slot, the state of that
\* slot, the bytes pending in it and its buffer.
C21_StopKeepsEarlier ==
    [][ServerStop =>
        /\ srvSock' = -1
        /\ dsock'[d_[SrvHandle]] = -1
        /\ \A h \in UserHandles :
              LET d == d_[h]
                  s == dsock[d]
              IN  (d # d_[SrvHandle] /\ s >= 0) =>
                     /\ dsock'[d] = s /\ sr'[s] = sr[s] /\ rxq'[s] = rxq[s]
                     /\ doffset'[d] = doffset[d] /\ dtotal'[d] = dtotal[d]
                     /\ dbuffer'[d] = dbuffer[d]]_vars

\* C22: when inet_gethostbyname() has returned, whatever its result, the
\* resolver holds no hardware slot and the DNS scratch buffer is neither
\* allocated nor referenced: dnsBuffer is NULL again, the slot the resolver
\* took is closed, and the call touched no array that was freed before.
C22_ResolverHoldsNothing ==
    LastCall("resolve", 0) =>
        /\ dnsBuffer = "NULL"
        /\ \A i \in 2 .. Len(ops) :
              /\ (ops[i][1] = "socketGetFree" /\ ops[i][2] >= 0)
                    => sr[ops[i][2]] = "CLOSED"
              /\ ops[i][1] \in {"DNS_init", "delete"} => ops[i][3] = 0

\* C23: receivePacket(buffer, size, timeout) with a buffer of size > 0 tells
\* three outcomes apart.  With a datagram pending on the open UDP slot it
\* returns a positive length and records the sender's address and port; with
\* the slot open and no datagram pending it returns 0, at once when timeout
\* is 0, or the positive length of a datagram that arrived within the
\* timeout; when _sock is not a slot open in UDP mode it returns a negative
\* value.
C23_ThreeOutcomes ==
    [][UReceivePacket =>
        LET sock == udp.sock
            open == ValidSock(sock) /\ sr[sock] = "UDP"
            hasBuffer == ops'[1][2] = 1
            size == ops'[2][2]
            timeout == ops'[2][3]
        IN  (hasBuffer /\ size > 0) =>
               /\ (open /\ rxq[sock] # <<>>) =>
                     /\ ret' > 0
                     /\ udp'.remoteIP = Head(rxq[sock]).ip
                     /\ udp'.remotePort = Head(rxq[sock]).port
               /\ (open /\ rxq[sock] = <<>>) =>
                     \/ ret' = 0
                     \/ timeout # 0 /\ ret' > 0
               /\ ~open => ret' < 0]_vars

\* C24: endPacket() sends the bytes written since the last beginPacket() as
\* one datagram and clears the buffer: when the chip has accepted the
\* datagram, it is the only one sent, it holds exactly the bytes written and
\* goes to the address and port of beginPacket(), and the write cursor is 0
\* when endPacket() returns.
C24_EndPacketClears ==
    [][(UEndPacket /\ ret' > 0) =>
        /\ Len(udpSent') = 1
        /\ udpSent'[1].data = udp.written
        /\ udpSent'[1].ip = udp.remoteIP
        /\ udpSent'[1].port = udp.remotePort
        /\ udp'.offset = 0]_vars

\* The room of the buffer of the UDP object: 0 when no buffer is set.
Capacity == IF udp.buffer = "NULL" THEN 0 ELSE udp.buffer_size

\* C25: write(buffer, size) appends min(size, capacity - cursor) bytes at the
\* cursor, leaves the bytes before it alone and returns that number; with no
\* buffer set it returns 0 and changes nothing; and in every state reached by
\* setBuffer, beginPacket, write (and begin, stop, endPacket) the cursor is
\* at most the capacity and nothing was stored past the end of the array.
C25_WriteWithinCapacity ==
    /\ [](udp.offset <= Capacity /\ Len(udp.data) = Capacity)
    /\ [][UWrite =>
            LET size == ops'[2][2]
                b == ops'[2][3]
                n == Min(size, Capacity - udp.offset)
            IN  /\ ret' = n
                /\ udp'.offset = udp.offset + n
                /\ \A i \in 1 .. Len(udp'.data) :
                      udp'.data[i] = IF i > udp.offset /\ i <= udp.offset + n
                                     THEN b ELSE udp.data[i]
                /\ udp.buffer = "NULL" => ret' = 0 /\ udp'.data = udp.data
                /\ udp'.buffer = udp.buffer
                /\ udp'.buffer_size = udp.buffer_size]_vars

\* C25 witness: a write at a cursor that is not 0 was cut short at the end of
\* the buffer.
C25_Witness ==
    /\ ops # <<>> /\ ops[1][1] = "UDP.write"
    /\ ret > 0 /\ ret < ops[2][2]
    /\ udp.offset = udp.buffer_size /\ udp.offset > ret

\* The hardware slots the UDP object holds: open in UDP mode with its port.
\* (The other UDP objects of the pool have no port noted.)
Held == {s \in Slots : sr[s] = "UDP" /\ snreg[s].port # 0}

\* C26: joinMulticast(G) succeeds (returns 1) only on a UDP object that
\* begin() has bound to a slot open in UDP mode; on success the object holds
\* exactly one slot, opened in multicast mode for the group G on the port
\* given to begin(), and the slot it held before is released or is that one
\* slot again.
C26_JoinReplaces ==
    [][(UJoinMulticast /\ ret' = 1) =>
        LET old == udp.sock
            new == udp'.sock
            G == ops'[1][2]
        IN  /\ ValidSock(old) /\ sr[old] = "UDP"
            /\ snreg[old].port = udp.port
            /\ ValidSock(new) /\ sr'[new] = "UDP"
            /\ snreg'[new] = [port |-> udp.port, multi |-> TRUE, group |-> G]
            /\ udp'.port = udp.port
            /\ old # new => sr'[old] = "CLOSED"
            /\ Held' = {new}]_vars

LeaveRebound ==
    /\ udp'.port = udp.port
    /\ ValidSock(udp.sock) /\ udp'.sock # udp.sock
          => sr'[udp.sock] = "CLOSED"
    /\ \/ /\ ret' = 1
          /\ ValidSock(udp'.sock) /\ sr'[udp'.sock] = "UDP"
          /\ snreg'[udp'.sock] = [port |-> udp.port, multi |-> FALSE,
                                  group |-> 0]
          /\ \A s \in Slots \ {udp'.sock} :
                snreg'[s].port = 0 \/ sr'[s] = "CLOSED"
       \/ /\ ret' = 0
          /\ udp'.sock = -1
          /\ \A s \in Slots : snreg'[s].port = 0 \/ sr'[s] = "CLOSED"

\* leaveMulticast() has refused: -1 is returned and nothing has changed.
LeaveRefused ==
    ret' = -1 /\ udp' = udp /\ sr' = sr /\ snreg' = snreg

C28_TrueOnlyOnSuccess ==
    [][(UJoinMulticast \/ ULeaveMulticast) =>
        (ret' # 0 =>
            /\ ValidSock(udp'.sock) /\ sr'[udp'.sock] = "UDP"
            /\ \E i \in 2 .. Len(ops') :
                  ops'[i] = <<"socket", udp'.sock, 0>>)]_vars

\* The setter of each known key of cfg called in order: withIPAddress,
\* withSubnetMask, withGatewayAddress, withDNSAddress, withDHCP or
\* withStaticIP; a key that is not known calls nothing.
RECURSIVE SettersInOrder(_, _)
SettersInOrder(w, cfg) ==
    IF cfg = <<>> THEN w
    ELSE LET name == cfg[1][1]
             value == cfg[1][2]
             w1 == IF name = "ipAddr" THEN withIPAddress(w, value)
                   ELSE IF name = "subnetMask" THEN withSubnetMask(w, value)
                   ELSE IF name = "gatewayAddr"
                   THEN withGatewayAddress(w, value)
                   ELSE IF name = "dnsAddr" THEN withDNSAddress(w, value)
                   ELSE IF name = "DHCP"
                   THEN (IF value # 0 THEN withDHCP(w) ELSE withStaticIP(w))
                   ELSE w
         IN  SettersInOrder(w1, Tail(cfg))

\* C29: loadJsonConfig(cfg), called after setup(), leaves the address
\* fields, the DHCP/static mode and the network registers of the chip as the
\* setters of the known keys of cfg called in order, followed by
\* updateAddressSettings(), leave them.
C29_JsonAsSetters ==
    [][(setupDone /\ ops' # <<>> /\ ops'[1][1] = "loadJsonConfig") =>
        \A cfg \in JsonRecords :
            (/\ Len(cfg) = ops'[1][2]
             /\ Apply(loadJsonConfig(Call("loadJsonConfig", Len(cfg)), cfg)))
            => LET e == updateAddressSettings(SettersInOrder(Cur, cfg))
               IN  /\ ipAddr' = e.ipAddr
                   /\ subnetMaskArray' = e.subnetMaskArray
                   /\ gatewayAddr' = e.gatewayAddr
                   /\ dnsAddr' = e.dnsAddr
                   /\ dhcpState' = e.dhcpState
                   /\ netInfo' = e.netInfo]_vars

\* C30: a call of withStaticIP() that finds DHCP IN_PROGRESS or GOT_ADDRESS
\* stands under every interleaving with the maintenance thread: once the
\* call has returned, dhcpState is the request (CLEANUP_DISABLE) or
\* NOT_USED, never a state that a lease callback or a link drop has written
\* over it, and in NOT_USED the DHCP buffer is released and the DHCP socket
\* is closed.
C30_StaticRequestStands ==
    (pc.asked /\ pc.call = "idle") =>
        /\ dhcpState \in {"CLEANUP_DISABLE", "NOT_USED"}
        /\ dhcpState = "NOT_USED" =>
               (~dhcpBuffer /\ sr[DHCP_SOCKET] = "CLOSED")

\* C31: finding a closed slot and opening it is a critical section: the
\* maintenance thread and a foreground caller never both hold the same slot
\* index from socketGetFree() before one of them has used it.
C31_AllocationExclusive ==
    ~(pc.dhcpSocket >= 0 /\ pc.sock = pc.dhcpSocket)

\* C32: a tick in ATTEMPT that samples the link up starts the lease on the
\* first closed slot and moves to IN_PROGRESS when a slot is closed, and
\* moves to DONE without starting anything when none is; in DONE the machine
\* stays in DONE on every tick that samples the link up, and only such a
\* tick with the link down or a withDHCP() takes it out of DONE; a tick in
\* ATTEMPT that samples the link down stays in ATTEMPT and allocates
\* neither a socket nor the buffer.
C32_AttemptOutcomes ==
    [][/\ Tick =>
            /\ (dhcpState = "ATTEMPT" /\ hwLink /\ NumClosed(Cur) > 0) =>
                  /\ dhcpState' = "IN_PROGRESS"
                  /\ DHCP_SOCKET' = socketGetFree(Cur)
                  /\ CountOp(ops', "DHCP_init") = 1
            /\ (dhcpState = "ATTEMPT" /\ hwLink /\ NumClosed(Cur) = 0) =>
                  /\ dhcpState' = "DONE"
                  /\ NoOp(ops', "DHCP_init")
                  /\ sr' = sr /\ DHCP_SOCKET' = DHCP_SOCKET
            /\ (dhcpState = "ATTEMPT" /\ ~hwLink) =>
                  /\ dhcpState' = "ATTEMPT"
                  /\ NoOp(ops', "socketGetFree")
                  /\ dhcpBuffer' = dhcpBuffer
                  /\ sr' = sr /\ DHCP_SOCKET' = DHCP_SOCKET
            /\ (dhcpState = "DONE" /\ hwLink) =>
                  dhcpState' = "DONE" /\ NoOp(ops', "socketGetFree")
       /\ (dhcpState = "DONE" /\ dhcpState' # "DONE") =>
            \/ ops' # <<>> /\ ops'[1][1] = "withDHCP"
            \/ ops' # <<>> /\ ops'[1][1] = "stateMachine" /\ ~hwLink
      ]_vars

\* C32 witness: a tick has found no closed slot in ATTEMPT with the link up
\* and has left the machine in DONE.
C32_Witness ==
    /\ LastCall("stateMachine", 0)
    /\ dhcpState = "DONE" /\ phyLink
    /\ \E i \in DOMAIN ops : ops[i] = <<"socketGetFree", -1, 0>>

\* C33: a tick in IN_PROGRESS that samples the link down ends in CLEANUP,
\* whether or not a lease has completed in it; a tick in CLEANUP or
\* CLEANUP_DISABLE closes the DHCP socket, frees the DHCP buffer and ends in
\* DONE (from CLEANUP) or NOT_USED (from CLEANUP_DISABLE).
C33_DropAndCleanup ==
    [][Tick =>
         /\ (dhcpState = "IN_PROGRESS" /\ ~hwLink) => dhcpState' = "CLEANUP"
         /\ dhcpState \in {"CLEANUP", "CLEANUP_DISABLE"} =>
               /\ \E i \in DOMAIN ops' : ops'[i] = <<"close", DHCP_SOCKET, 0>>
               /\ sr'[DHCP_SOCKET] = "CLOSED"
               /\ ~dhcpBuffer'
               /\ dhcpState' = IF dhcpState = "CLEANUP" THEN "DONE"
                                ELSE "NOT_USED"
      ]_vars

\* C33 witness: a tick in which the lease completed and the link was found
\* down has ended in CLEANUP.
C33_Witness ==
    /\ LastCall("stateMachine", 0)
    /\ ~NoOp(ops, "ip_assign")
    /\ ~phyLink /\ dhcpState = "CLEANUP"

\* C34: DHCP holds its socket and its buffer only in IN_PROGRESS,
\* GOT_ADDRESS, CLEANUP and CLEANUP_DISABLE: in NOT_USED, ATTEMPT and DONE
\* the buffer is not allocated and no socket is open, and never is more than
\* one socket open.  It is stated where DHCP is the only user of sockets.
C34_HeldOnlyDuringDhcp ==
    /\ dhcpState \in {"NOT_USED", "ATTEMPT", "DONE"} =>
          (~dhcpBuffer /\ \A s \in Slots : sr[s] = "CLOSED")
    /\ Cardinality({s \in Slots : sr[s] # "CLOSED"}) <= 1

\* C35: a tick that fires gotIpAddress ends with the sampled link up and
\* ready() true, and has fired no linkDown (neither is written in a pass
\* after its last callback, so that the end of the pass shows what the
\* callback saw); since phyLink is false from a linkDown to the next linkUp,
\* no gotIpAddress follows a linkDown without a linkUp in between.
C35_GotIpWhenReady ==
    [][(Tick /\ Fired(ev', "gotIpAddress") > 0) =>
          /\ phyLink' /\ isReady'
          /\ Fired(ev', "linkDown") = 0]_vars

\* C36: the connection state of s_invalid_client, which available() hands
\* out when no connection is established, holds no slot and no buffered
\* byte, whatever is done with the handles that available() returned.
C36_SentinelEmpty ==
    /\ sock_handle(Cur, InvHandle) = -1
    /\ bufferCount(Cur, InvHandle) = 0

\* C37: whenever available(), read() or peek() of the UDP object is called,
\* the cursor satisfies offset <= total: available() returns no negative
\* number, and read() and peek() return a byte only from below total.
C37_AvailableNonNegative ==
    [][(ops' # <<>> /\ ops'[1][1] \in {"UDP.available", "UDP.read",
                                        "UDP.peek"}) =>
          /\ udp.offset <= udp.total
          /\ ops'[1][1] = "UDP.available" => ret' >= 0
          /\ (ops'[1][1] # "UDP.available" /\ ret' # -1) =>
                udp.offset < udp.total]_vars

\* C38: endPacket() sends its datagram to the address and port given to the
\* last beginPacket(), and a sendPacket() or receivePacket() made after a
\* beginPacket() leaves the pending destination, the cursor and the content of
\* the buffer as they are.
C38_DirectPathFrame ==
    [][/\ (LastCall("UDP.endPacket", 0)' /\ udpSent' # <<>>
             /\ pc.dest # <<0, 0>>) =>
              <<udpSent'[1].ip, udpSent'[1].port>> = pc.dest
       /\ ((LastCall("UDP.sendPacket", 0)' \/ LastCall("UDP.receivePacket", 0)'
              \/ LastCall("UDP.receivePacket", 1)')
             /\ pc.dest # <<0, 0>>) =>
              /\ udp'.remoteIP = udp.remoteIP
              /\ udp'.remotePort = udp.remotePort
              /\ udp'.offset = udp.offset /\ udp'.total = udp.total
              /\ udp'.data = udp.data]_vars

\* C39: linkUp and linkDown alternate, starting with linkUp.  phyLink starts
\* false; a step fires at most one link callback, and only a pass of
\* stateMachine fires one; linkUp is fired exactly by the pass that takes
\* phyLink from false to true, linkDown exactly by the pass that takes it
\* from true to false; a pass that samples the link as phyLink has it fires
\* none.
C39_LinkCallbacksAlternate ==
    /\ ~phyLink
    /\ [][LET up == Fired(ev', "linkUp")
              down == Fired(ev', "linkDown")
          IN  /\ up + down <= 1
              /\ up + down > 0 => LastCall("stateMachine", 0)'
              /\ up = 1 <=> (~phyLink /\ phyLink')
              /\ down = 1 <=> (phyLink /\ ~phyLink')
              /\ (LastCall("stateMachine", 0)' /\ hwLink = phyLink) =>
                    up + down = 0]_vars

\* C39: a pass of stateMachine has fired linkDown, after an earlier pass
\* fired linkUp and set phyLink.
C39_Witness ==
    /\ LastCall("stateMachine", 0)
    /\ Fired(ev, "linkDown") = 1 /\ Fired(ev, "linkUp") = 0
    /\ ~phyLink /\ ~hwLink

\* C40: while ready() is false, connect (by address or by host name) and
\* TCPServer::begin return 0, call neither socketGetFree nor wiznet::socket,
\* connect or listen, open no slot, hold no slot afterwards and start no DNS
\* query; available() calls
\* no wiznet::recv, takes nothing from the chip and returns the number of
\* unread bytes of the local buffer.
C40_NotReadyNoHardware ==
    [][~isReady =>
         /\ (\/ LastCall("connect", 1)'
              \/ LastCall("connectHost", 1)'
              \/ LastCall("serverBegin", 0)') =>
               /\ ret' = 0
               /\ \A name \in {"socketGetFree", "socket", "connect", "listen",
                                "DNS_init"} : NoOp(Tail(ops'), name)
               /\ \A s \in Slots : sr'[s] \in {sr[s], "CLOSED"}
               /\ IF LastCall("serverBegin", 0)' THEN srvSock' = -1
                  ELSE dsock'[d_'[1]] = -1
               /\ dnsBuffer' = dnsBuffer
         /\ LastCall("available", 1)' =>
               /\ NoOp(Tail(ops'), "recv")
               /\ rxq' = rxq
               /\ ret' = dtotal[d_[1]] - doffset[d_[1]]]_vars

\* C40: available() has returned buffered bytes while the network was not
\* ready and the chip held more bytes of the connection.
C40_Witness ==
    /\ LastCall("available", 1) /\ ~isReady
    /\ ret > 0
    /\ ValidSock(dsock[d_[1]]) /\ rxq[dsock[d_[1]]] # <<>>

====
